---- MODULE Spec2Model ----
(***************************************************************************)
(* A model of the sales forecast of the analytics dashboard                *)
(* (src/src/pages/Sales.tsx, getForecastData) and of the JavaScript Date   *)
(* operations it calls; of the Sales page around it (processChartData,     *)
(* the fetches and the selections, the effect with its loading flag and    *)
(* its refresh interval); of the accounts and roles (dashboard_users, its  *)
(* trigger and its migration, the navigation bar); of the auth context     *)
(* (src/src/types/index.ts: refreshSession, the auth listener, signOut);   *)
(* and of the order generator (src/scripts/generate-test-orders.js).       *)
(*                                                                         *)
(* Representation of JavaScript values:                                    *)
(*   - a date string 'YYYY-MM-DD' is the tuple <<y, m, d>>, a month key    *)
(*     'YYYY-MM' is <<y, m>>, and a missing or unparsable date is <<>>;    *)
(*   - a point's revenue is a record [kind, val]: a number, undefined, or  *)
(*     a non-numeric string;                                               *)
(*   - a time value is a whole number of hours since 1970-01-01T00:00Z     *)
(*     (every offset of the modelled zones is a whole number of hours);    *)
(*   - a computed number is [nan |-> BOOLEAN, val |-> Int]; fractions are  *)
(*     kept exact as numerator/denominator pairs until Math.round;         *)
(*   - the sums of order amounts are rounded as doubles are, on            *)
(*     SignificandBits bits.                                               *)
(***************************************************************************)
EXTENDS Integers, Sequences, FiniteSets, TLC

VARIABLES
    tz,              \* the host's time zone (fixed for the life of the page)
    salesData,       \* the history handed to getForecastData
    horizon,         \* the number of periods asked for
    result,          \* what the last call did: nothing yet, returned, threw
    memo,            \* an earlier call kept for comparison: input and output
    orders,          \* the delivered orders the backend holds, oldest first
    timeRange,       \* Sales: the selected grouping
    dateRange,       \* Sales: the selected [start, end] dates
    forecastRange,   \* Sales: the selected forecast range
    combinedChartData,  \* Sales: the series handed to the chart
    inflight,        \* Sales: the fetches not yet answered, with the
                     \* selection each one captured
    auth_users,      \* the rows of auth.users
    dashboard_users, \* the rows of dashboard_users, by id
    userRole,        \* the signed-in user's role as the client holds it
    navigation,      \* the pages the navigation bar offers
    user,            \* AuthProvider: the signed-in user's id, or "null"
    session,         \* AuthProvider: the session, named by its user's id
    authLoading,     \* AuthProvider: loading
    isInitialized,   \* AuthProvider: isInitialized
    lookups,         \* the role lookups of updateAuthState not yet answered
    signOutCall,     \* the last call of signOut: none, pending, returned, threw
    role_check,      \* whether dashboard_users_role_check is in place
    refreshPromise,  \* the module's refreshPromise: <<request>>, or <<>> for null
    requests,        \* the requests of supabase.auth.refreshSession, in order
    refreshCalls,    \* the calls of refreshSession, in order
    customers,       \* the script: total_orders of each row of customers
    script_orders,   \* the script: the orders it has inserted, by customer
    runs,            \* the script: the runs of generateTestOrder, in order
    loading,         \* Sales: loading
    metrics,         \* Sales: metrics
    timers,          \* Sales: the refresh intervals not yet cleared
    mounted,         \* Sales: whether the page is mounted
    shown            \* Sales: the fetch whose answer salesData now holds

pageVars ==
    <<orders, timeRange, dateRange, forecastRange, combinedChartData, inflight>>

authVars == <<user, session, authLoading, isInitialized, lookups, signOutCall>>

roleVars == <<auth_users, dashboard_users, userRole, navigation, authVars>>

refreshVars == <<refreshPromise, requests, refreshCalls>>

scriptVars == <<customers, script_orders, runs>>

effectVars == <<loading, metrics, timers, mounted, shown>>

restVars == <<role_check, refreshVars, scriptVars, effectVars>>

forecastVars == <<tz, salesData, horizon, result, memo>>

vars == <<tz, salesData, horizon, result, memo, pageVars, roleVars, restVars>>

-----------------------------------------------------------------------------
(* Bounds of the model *)

MaxLen == 3          \* longest enumerated history
MaxPeriods == 3      \* largest enumerated horizon
MaxCallLen == 2      \* longest history in the repeated-calls specification
MaxCallPeriods == 2  \* largest horizon in the repeated-calls specification
MaxPoints == 16      \* longest history of the longer-histories specification

-----------------------------------------------------------------------------
(* ECMAScript Date: day numbers and calendar fields (ECMA-262, 21.4.1) *)

\* DayFromYear(y): the day number of January 1st of year y
DayFromYear(y) ==
    365 * (y - 1970) + ((y - 1969) \div 4) - ((y - 1901) \div 100)
        + ((y - 1601) \div 400)

DaysInYear(y) == DayFromYear(y + 1) - DayFromYear(y)

LeapYears == { y \in 1970 .. 2100 : DaysInYear(y) = 366 }

InLeapYear(y) == y \in LeapYears

Years == 2023 .. 2027

YearContaining(day) ==
    CHOOSE y \in Years : DayFromYear(y) <= day /\ day < DayFromYear(y + 1)

\* days of the year before month m (0 = January .. 11 = December, 12 = end)
CommonYear == <<0, 31, 59, 90, 120, 151, 181, 212, 243, 273, 304, 334, 365>>

DaysBeforeMonth(y, m) ==
    CommonYear[m + 1] + (IF m >= 2 /\ InLeapYear(y) THEN 1 ELSE 0)

\* the month (0 .. 11) of day w (from 0) of year y
MonthInYear(y, w) ==
    LET leap == IF InLeapYear(y) THEN 1 ELSE 0
    IN  IF w < 31 THEN 0
        ELSE IF w < 59 + leap THEN 1
        ELSE IF w < 90 + leap THEN 2
        ELSE IF w < 120 + leap THEN 3
        ELSE IF w < 151 + leap THEN 4
        ELSE IF w < 181 + leap THEN 5
        ELSE IF w < 212 + leap THEN 6
        ELSE IF w < 243 + leap THEN 7
        ELSE IF w < 273 + leap THEN 8
        ELSE IF w < 304 + leap THEN 9
        ELSE IF w < 334 + leap THEN 10
        ELSE 11

\* the year, month (0 .. 11) and day of the month of every day number of
\* Years, computed once
Calendar ==
    [day \in DayFromYear(2023) .. DayFromYear(2028) - 1 |->
        LET y == YearContaining(day)
            w == day - DayFromYear(y)
            m == MonthInYear(y, w)
        IN  <<y, m, w - DaysBeforeMonth(y, m) + 1>>]

YearFromDay(day) == Calendar[day][1]

MonthFromDay(day) == Calendar[day][2]

DateFromDay(day) == Calendar[day][3]

\* 0 = Sunday
WeekDay(day) == (day + 4) % 7

\* MakeDay(year, month, date) with month in 0..11; date may run past the month
MakeDay(y, m, dt) == DayFromYear(y) + DaysBeforeMonth(y, m) + dt - 1

-----------------------------------------------------------------------------
(* The host time zone: local time, as Date.prototype.getDate and setDate   *)
(* see it.  A zone has a standard offset in hours and a daylight rule.     *)

Zones ==
    { [name |-> "UTC",              std |-> 0,  rule |-> "none"],
      [name |-> "Asia/Tokyo",       std |-> 9,  rule |-> "none"],
      [name |-> "America/New_York", std |-> -5, rule |-> "US"],
      [name |-> "Europe/Berlin",    std |-> 1,  rule |-> "EU"] }

SundayOnOrAfter(day) == day + ((7 - WeekDay(day)) % 7)

\* the UTC hour at which daylight time starts and ends in year y
DstStart(zone, y) ==
    IF zone.rule = "US"
    THEN SundayOnOrAfter(MakeDay(y, 2, 8)) * 24 + 2 - zone.std
    ELSE SundayOnOrAfter(MakeDay(y, 2, 25)) * 24 + 1

DstEnd(zone, y) ==
    IF zone.rule = "US"
    THEN SundayOnOrAfter(MakeDay(y, 10, 1)) * 24 + 2 - (zone.std + 1)
    ELSE SundayOnOrAfter(MakeDay(y, 9, 25)) * 24 + 1

\* the two transitions of every zone in every year, computed once
DstTimes ==
    [zone \in Zones |-> [y \in Years |-> <<DstStart(zone, y), DstEnd(zone, y)>>]]

\* the zone's offset from UTC, in hours, at UTC time t
OffsetAt(zone, t) ==
    IF zone.rule = "none" THEN zone.std
    ELSE LET dst == DstTimes[zone][YearFromDay(t \div 24)]
         IN  IF dst[1] <= t /\ t < dst[2]
             THEN zone.std + 1 ELSE zone.std

\* LocalTime(t): UTC time value to local time value
LocalTime(zone, t) == t + OffsetAt(zone, t)

\* UTC(tlocal): a local time that occurs twice is the earlier instant, one
\* that is skipped is read with the offset in force before the transition
UTC(zone, tlocal) ==
    LET asStd == tlocal - zone.std
        asDst == tlocal - (zone.std + 1)
    IN  IF zone.rule = "none" THEN asStd
        ELSE IF OffsetAt(zone, asDst) = zone.std + 1 THEN asDst
        ELSE asStd

-----------------------------------------------------------------------------
(* Date objects: [valid, t]; an Invalid Date (time value NaN) has valid =   *)
(* FALSE.                                                                  *)

InvalidDate == [valid |-> FALSE, t |-> 0]

DaysInMonth(y, m) == DaysBeforeMonth(y, m) - DaysBeforeMonth(y, m - 1)

\* new Date(string): 'YYYY-MM-DD' and 'YYYY-MM' are read as UTC midnight,
\* anything else (undefined, free text) gives an Invalid Date
NewDate(s) ==
    IF Len(s) = 3 /\ s[1] \in Years /\ s[2] \in 1 .. 12
                  /\ s[3] \in 1 .. DaysInMonth(s[1], s[2])
    THEN [valid |-> TRUE, t |-> MakeDay(s[1], s[2] - 1, s[3]) * 24]
    ELSE IF Len(s) = 2 /\ s[1] \in Years /\ s[2] \in 1 .. 12
    THEN [valid |-> TRUE, t |-> MakeDay(s[1], s[2] - 1, 1) * 24]
    ELSE InvalidDate

\* date.getDate(): the local day of the month, NaN for an Invalid Date
getDate(zone, date) ==
    IF date.valid
    THEN [nan |-> FALSE, val |-> DateFromDay(LocalTime(zone, date.t) \div 24)]
    ELSE [nan |-> TRUE, val |-> 0]

\* date.setDate(dt): the date object afterwards.  The local year, month and
\* time of day are kept and the day of the month becomes dt.
setDate(zone, date, dt) ==
    IF ~date.valid \/ dt.nan THEN InvalidDate
    ELSE LET tl  == LocalTime(zone, date.t)
             day == tl \div 24
             nd  == MakeDay(YearFromDay(day), MonthFromDay(day), dt.val)
         IN  [valid |-> TRUE, t |-> UTC(zone, nd * 24 + (tl % 24))]

\* date.toISOString().split('T')[0]: the UTC calendar date, or a RangeError
ThrowsRangeError(date) == ~date.valid

ISODateOfDay(day) ==
    <<Calendar[day][1], Calendar[day][2] + 1, Calendar[day][3]>>

toISODate(date) == ISODateOfDay(date.t \div 24)

-----------------------------------------------------------------------------
(* getForecastData (src/src/pages/Sales.tsx, lines 7-43) *)

Number(k) == [kind |-> "number", val |-> k]
Undefined == [kind |-> "undefined", val |-> 0]
Text == [kind |-> "string", val |-> 0]      \* a non-empty, non-numeric string

NaN == [nan |-> TRUE, val |-> 0]
Finite(k) == [nan |-> FALSE, val |-> k]

\* d[key] || 0 : undefined and 0 are falsy, a non-empty string is kept
OrZero(v) ==
    IF v.kind = "undefined" \/ (v.kind = "number" /\ v.val = 0)
    THEN Number(0) ELSE v

\* const ys = historicalData.map(d => d[key] || 0)
ys(historicalData) ==
    [i \in 1 .. Len(historicalData) |-> OrZero(historicalData[i].revenue)]

\* arithmetic on ys is finite exactly when every element is a number: one
\* string makes x * ys[i], and so sumXY, slope and every forecast, NaN
AllNumbers(y) == \A i \in 1 .. Len(y) : y[i].kind = "number"

RECURSIVE Reduce(_, _, _)
\* f.reduce over the indices k .. n of a function f, starting from acc
Reduce(f, k, acc) ==
    IF k > Len(f) THEN acc ELSE Reduce(f, k + 1, acc + f[k])

\* xs[i] = i ; the arrays are 0-based in the source, 1-based here
sumX(y) == Reduce([i \in 1 .. Len(y) |-> i - 1], 1, 0)
sumY(y) == Reduce([i \in 1 .. Len(y) |-> y[i].val], 1, 0)
sumXY(y) == Reduce([i \in 1 .. Len(y) |-> (i - 1) * y[i].val], 1, 0)
sumXX_Linear(y) == Reduce([i \in 1 .. Len(y) |-> i - 1], 1, 0)

sumXX(y) == Reduce([i \in 1 .. Len(y) |-> (i - 1) * (i - 1)], 1, 0)

slopeNum_Swapped(y) == sumX(y) * sumY(y) - Len(y) * sumXY(y)

\* slope = (n * sumXY - sumX * sumY) / (n * sumXX - sumX * sumX || 1)
slopeNum(y) == Len(y) * sumXY(y) - sumX(y) * sumY(y)

slopeDen(y) ==
    LET d == Len(y) * sumXX(y) - sumX(y) * sumX(y)
    IN  IF d = 0 THEN 1 ELSE d

interceptNum_MeanOnly(y) == sumY(y) * slopeDen(y)

\* intercept = (sumY - slope * sumX) / n, over the denominator slopeDen * n
interceptNum(y) == sumY(y) * slopeDen(y) - slopeNum(y) * sumX(y)
interceptDen(y) == slopeDen(y) * Len(y)


\* const patternWindow = Math.min(14, historicalData.length)
PatternDays == 14

patternWindow(y) == IF PatternDays < Len(y) THEN PatternDays ELSE Len(y)

pattern_Leading(y) == SubSeq(y, 1, patternWindow(y))

\* const pattern = ys.slice(-patternWindow)
pattern(y) == SubSeq(y, Len(y) - patternWindow(y) + 1, Len(y))

\* what getForecastData has computed before the map over the periods: n,
\* the slope and the intercept (as fractions), the pattern, and whether the
\* arithmetic is finite
Fit(y) ==
    [n            |-> Len(y),
     finite       |-> AllNumbers(y),
     slopeNum     |-> slopeNum(y),
     interceptNum |-> interceptNum(y),
     interceptDen |-> interceptDen(y),
     pattern      |-> pattern(y)]

\* trend = slope * x + intercept, over the denominator interceptDen
trendNum(fit, x) == fit.slopeNum * x * fit.n + fit.interceptNum

patternValue_First(fit, i) == fit.pattern[1].val

\* pattern[i % pattern.length]
patternValue(fit, i) == fit.pattern[(i % Len(fit.pattern)) + 1].val

\* forecast = (trend + patternValue) / 2, over the denominator forecastDen
forecastNum(fit, i) ==
    trendNum(fit, fit.n + i) + patternValue(fit, i) * fit.interceptDen

forecastDen(fit) == 2 * fit.interceptDen

MathRound_Truncated(num, den) ==
    IF den > 0 THEN num \div den ELSE (0 - num) \div (0 - den)

\* Math.round(num / den): to the nearest integer, a half goes up
MathRound(num, den) ==
    IF den > 0 THEN (2 * num + den) \div (2 * den)
    ELSE (2 * (0 - num) - den) \div (2 * (0 - den))

MathMax0_None(r) == r

\* Math.max(0, r)
MathMax0(r) == IF r < 0 THEN 0 ELSE r

\* forecast: Math.max(0, Math.round(forecast))
forecastValue(fit, i) ==
    IF fit.finite
    THEN Finite(MathMax0(MathRound(forecastNum(fit, i), forecastDen(fit))))
    ELSE NaN

\* const lastDate = new Date(historicalData[historicalData.length - 1].date)
lastDate(historicalData) == NewDate(historicalData[Len(historicalData)].date)

\* const forecastDate = new Date(lastDate);
\* forecastDate.setDate(lastDate.getDate() + i + 1)
\* last is lastDate and dom is lastDate.getDate(), the same at every step
forecastDate(zone, last, dom, i) ==
    setDate(zone, last, IF dom.nan THEN NaN ELSE Finite(dom.val + i + 1))

ToLength_OneShort(periods) == IF periods > 1 THEN periods - 1 ELSE 0

ToLength_Magnitude(periods) == IF periods > 0 THEN periods ELSE 0 - periods

\* Array.from({ length: periods }): ToLength of a negative number is 0
ToLength(periods) == IF periods > 0 THEN periods ELSE 0

TooShort_One(historicalData) == Len(historicalData) < 1

\* if (historicalData.length < 2) return []
TooShort(historicalData) == Len(historicalData) < 2

Returned(points) == [status |-> "returned", value |-> points]
Threw == [status |-> "threw", value |-> <<>>]
NoCall == [status |-> "none", value |-> <<>>]

\* the callback of .map, for i = 0 .. periods - 1
ForecastPoint(date, fit, i) ==
    [date     |-> toISODate(date),
     forecast |-> forecastValue(fit, i)]

getForecastDataIn(zone, historicalData, periods) ==
    IF TooShort(historicalData) THEN Returned(<<>>)
    ELSE IF ToLength(periods) = 0 THEN Returned(<<>>)
    ELSE LET fit   == Fit(ys(historicalData))
             last  == lastDate(historicalData)
             dom   == getDate(zone, last)
             dates == [k \in 1 .. ToLength(periods) |->
                          forecastDate(zone, last, dom, k - 1)]
         IN  IF \E k \in 1 .. Len(dates) : ThrowsRangeError(dates[k])
             THEN Threw
             ELSE Returned([k \in 1 .. Len(dates) |->
                                ForecastPoint(dates[k], fit, k - 1)])

\* a result that depends on an earlier call: once a different input has been
\* served, the horizon of the remembered call is added to the one asked for
getForecastData_Carried(historicalData, periods) ==
    getForecastDataIn(tz, historicalData,
                      IF memo.set /\ memo.other THEN periods + memo.horizon
                      ELSE periods)

\* the function as the page calls it, in the host's time zone
getForecastData(historicalData, periods) ==
    getForecastDataIn(tz, historicalData, periods)

ArgAfterCall_Spliced(historicalData) ==
    IF Len(historicalData) < 2 THEN historicalData
    ELSE SubSeq(historicalData, 1,
                Len(historicalData) - patternWindow(ys(historicalData)))

\* what the call leaves in the array it was handed: the body only reads it
\* (length, map, index), and slice is applied to the fresh array ys
ArgAfterCall(historicalData) == historicalData

-----------------------------------------------------------------------------
(* Inputs *)

Values == { Number(-30), Number(20), Undefined, Text }

\* the last historical date: mid-month, the end of a leap February, year end,
\* and the eves of the 2025 changes to daylight time
LastDates ==
    { <<2025, 1, 14>>, <<2024, 2, 28>>, <<2025, 12, 31>>,
      <<2025, 3, 8>>, <<2025, 3, 29>> }

\* n consecutive days ending on last
Daily(last, n) ==
    [i \in 1 .. n |-> ISODateOfDay(NewDate(last).t \div 24 - (n - i))]

\* n consecutive month keys ending on June 2025 (the monthly grouping)
Monthly(n) == [i \in 1 .. n |-> <<2025, 6 - (n - i)>>]

\* n consecutive days of which the last has no usable date
LastMissing(n) ==
    [i \in 1 .. n |-> IF i = n THEN <<>> ELSE Daily(<<2025, 1, 14>>, n)[i]]

DateColumns(n) ==
    { Daily(last, n) : last \in LastDates } \cup { Monthly(n), LastMissing(n) }

History(values, dates) ==
    [i \in 1 .. Len(values) |-> [date |-> dates[i], revenue |-> values[i]]]

HistoriesOfLen(n) ==
    { History(v, d) : v \in [1 .. n -> Values], d \in DateColumns(n) }

Histories == UNION { HistoriesOfLen(n) : n \in 0 .. MaxLen }

Horizons == -1 .. MaxPeriods

\* forecastPeriods = { week: 7, month: 30, year: 365 }
ForecastWeek == 7
ForecastMonth == 30
ForecastYear == 365

forecastPeriods ==
    [week |-> ForecastWeek, month |-> ForecastMonth, year |-> ForecastYear]

NumberSeq(ks) == [i \in 1 .. Len(ks) |-> Number(ks[i])]

\* the two histories of the worked examples
History14 ==
    History(NumberSeq(<<100, 102, 98, 105, 110, 108, 112,
                        100, 102, 98, 105, 110, 108, 112>>),
            Daily(<<2025, 1, 14>>, 14))

History2 == History(NumberSeq(<<10, 20>>), Daily(<<2025, 1, 14>>, 2))

\* the rising two-point history on every date column, at the enumerated
\* horizons and at the page's own
PageInputs ==
    { <<History(NumberSeq(<<10, 20>>), d), p>> :
          d \in DateColumns(2),
          p \in { forecastPeriods[r] : r \in DOMAIN forecastPeriods }
                    \cup Horizons }

Inputs ==
    (Histories \X Horizons) \cup PageInputs
        \cup { <<History14, ForecastWeek>>, <<History14, 0>> }

\* the Sales page and the accounts, where a specification leaves them out
PageUnmounted ==
    /\ orders = <<>>
    /\ timeRange = "daily"
    /\ dateRange = [start |-> <<2025, 6, 1>>, end |-> <<2025, 8, 31>>]
    /\ forecastRange = "week"
    /\ combinedChartData = <<>>
    /\ inflight = {}

NoAccounts ==
    /\ auth_users = {}
    /\ dashboard_users = <<>>
    /\ userRole = "null"
    /\ navigation = <<>>
    /\ user = "null"
    /\ session = "null"
    /\ authLoading = TRUE
    /\ isInitialized = FALSE
    /\ lookups = {}
    /\ signOutCall = "none"

\* the role migration applied, no call of refreshSession, the script not
\* started, the effect of the Sales page not run
\* no fetch: what shown holds before any answer
NoFetch ==
    [timeRange |-> "none", dateRange |-> [start |-> <<>>, end |-> <<>>]]

NoRefresh ==
    /\ refreshPromise = <<>>
    /\ requests = <<>>
    /\ refreshCalls = <<>>

NoScript ==
    /\ customers = <<>>
    /\ script_orders = <<>>
    /\ runs = <<>>

NoEffect ==
    /\ loading = TRUE
    /\ metrics = [totalRevenue |-> 0, avgOrderValue |-> <<0, 1>>,
                  totalOrders |-> 0]
    /\ timers = {}
    /\ mounted = FALSE
    /\ shown = NoFetch

RestIdle ==
    /\ role_check = TRUE
    /\ NoRefresh
    /\ NoScript
    /\ NoEffect

NoMemo ==
    [set |-> FALSE, other |-> FALSE, salesData |-> <<>>, horizon |-> 0,
     result |-> NoCall]

-----------------------------------------------------------------------------
(* One call on each input *)

Init ==
    /\ tz \in Zones
    /\ \E in \in Inputs : salesData = in[1] /\ horizon = in[2]
    /\ result = NoCall
    /\ memo = NoMemo
    /\ PageUnmounted
    /\ NoAccounts
    /\ RestIdle

\* const forecastData = getForecastData(salesData, forecastPeriods[...])
Call ==
    /\ result.status = "none"
    /\ result' = getForecastData(salesData, horizon)
    /\ salesData' = ArgAfterCall(salesData)
    /\ UNCHANGED <<tz, horizon, memo, pageVars, roleVars,
                   restVars>>

Next == Call

Spec == Init /\ [][Next]_vars

-----------------------------------------------------------------------------
(* Repeated calls: the page calls getForecastData again on every render,   *)
(* with whatever salesData and forecastRange then hold.  memo keeps one    *)
(* earlier call, and whether a call on another input has been made since.  *)

CallValues == { Number(20), Text }

\* histories ending on the eve of a change to daylight time, and one whose
\* last point has no date
CallHistories ==
    UNION { { History(v, Daily(<<2025, 3, 8>>, n)) :
                  v \in [1 .. n -> CallValues] } : n \in 0 .. MaxCallLen }
        \cup { History(NumberSeq(<<10, 20>>), LastMissing(2)) }

CallInputs == CallHistories \X (0 .. MaxCallPeriods)

InitCalls ==
    /\ tz \in Zones
    /\ \E in \in CallInputs : salesData = in[1] /\ horizon = in[2]
    /\ result = NoCall
    /\ memo = NoMemo
    /\ PageUnmounted
    /\ NoAccounts
    /\ RestIdle

\* keep the call just made
Remember ==
    /\ result.status /= "none"
    /\ memo' = [set |-> TRUE, other |-> FALSE, salesData |-> salesData,
                 horizon |-> horizon, result |-> result]
    /\ UNCHANGED <<tz, salesData, horizon, result, pageVars, roleVars,
                   restVars>>

\* setSalesData / setForecastRange: the next render has a new input
NewInput ==
    /\ result.status /= "none"
    /\ \E in \in CallInputs : salesData' = in[1] /\ horizon' = in[2]
    /\ result' = NoCall
    /\ memo' = [memo EXCEPT !.other =
                    @ \/ (memo.set /\ (memo.salesData /= salesData
                                         \/ memo.horizon /= horizon))]
    /\ UNCHANGED <<tz, pageVars, roleVars,
                   restVars>>

NextCalls == Call \/ Remember \/ NewInput

SpecCalls == InitCalls /\ [][NextCalls]_vars

-----------------------------------------------------------------------------
(* Properties of one call *)

Called == result.status /= "none"

\* every date of the history is one that new Date can read
DatesParse(h) == \A i \in 1 .. Len(h) : NewDate(h[i].date).valid

\* every date of the history is a calendar date 'YYYY-MM-DD'
CalendarDates(h) ==
    \A i \in 1 .. Len(h) : Len(h[i].date) = 3 /\ NewDate(h[i].date).valid

\* every value of the history is a number or is missing
ValuesNumeric(h) == \A i \in 1 .. Len(h) : h[i].revenue.kind /= "string"

\* C1: a history of at least 2 points (with readable dates) and a positive
\* horizon give a returned sequence of exactly horizon points.
C1_LengthIsHorizon ==
    (Called /\ Len(salesData) >= 2 /\ horizon > 0 /\ DatesParse(salesData))
        => (result.status = "returned" /\ Len(result.value) = horizon)

C1_Witness ==
    /\ Called /\ Len(salesData) >= 2 /\ DatesParse(salesData)
    /\ horizon = ForecastYear
    /\ Len(result.value) = ForecastYear

\* C2: with fewer than 2 points the call returns the empty sequence, whatever
\* the horizon and whatever the points hold, and does not throw.
C2_ShortHistoryEmpty ==
    (Called /\ Len(salesData) < 2) => result = Returned(<<>>)

C2_Witness ==
    /\ Called /\ Len(salesData) = 1 /\ horizon > 0
    /\ salesData[1].date = <<>>
    /\ result = Returned(<<>>)

\* C3: with at least 2 points and a horizon that is zero or negative the call
\* returns the empty sequence.
C3_NonPositiveHorizonEmpty ==
    (Called /\ Len(salesData) >= 2 /\ horizon <= 0) => result = Returned(<<>>)

C3_Witness ==
    /\ Called /\ Len(salesData) >= 2 /\ horizon < 0
    /\ result = Returned(<<>>)

\* the forecast of step i before Math.max, for a history of numbers
RawForecast(h, i) ==
    MathRound(forecastNum(Fit(ys(h)), i), forecastDen(Fit(ys(h))))

\* C4: every returned forecast value is a number >= 0, for every history
\* whose values are numbers (negative ones included) or missing.
C4_ForecastNonNegative ==
    (Called /\ result.status = "returned" /\ ValuesNumeric(salesData))
        => \A k \in 1 .. Len(result.value) :
               /\ ~result.value[k].forecast.nan
               /\ result.value[k].forecast.val >= 0

\* a step whose blend of trend and pattern is below zero, in a history that
\* has a negative and a missing value
C4_Witness ==
    /\ Called /\ result.status = "returned" /\ ValuesNumeric(salesData)
    /\ \E j \in 1 .. Len(salesData) : salesData[j].revenue.kind = "undefined"
    /\ \E j \in 1 .. Len(salesData) : salesData[j].revenue.val < 0
    /\ \E k \in 1 .. Len(result.value) :
           /\ RawForecast(salesData, k - 1) < 0
           /\ result.value[k].forecast.val = 0

\* the calendar date k days after the date string s
DaysAfter(s, k) == ISODateOfDay(NewDate(s).t \div 24 + k)

\* C5: the i-th returned date (from 0) is the last historical date plus
\* exactly i + 1 calendar days, for every history of calendar dates.
C5_DatesAdvanceByOneDay ==
    (Called /\ result.status = "returned" /\ CalendarDates(salesData))
        => \A k \in 1 .. Len(result.value) :
               result.value[k].date
                   = DaysAfter(salesData[Len(salesData)].date, k)

\* C7: the call never throws: it returns a sequence for every history and
\* horizon, the empty one for a short history or a non-positive horizon.
C7_NeverThrows ==
    Called =>
        /\ result.status = "returned"
        /\ (Len(salesData) < 2 \/ horizon <= 0) => result.value = <<>>

Abs(k) == IF k < 0 THEN 0 - k ELSE k

ReturnedValues == [k \in 1 .. Len(result.value) |-> result.value[k].forecast.val]
ReturnedDates == [k \in 1 .. Len(result.value) |-> result.value[k].date]

WeekPattern == <<100, 102, 98, 105, 110, 108, 112>>

\* C9 as stated: on the 14-point example with horizon 7 the slope is about 0
\* (here: within 1/2 of 0), every forecast value is close to the pattern value
\* of its position (here: within 5), and the dates are 2025-01-15 .. 21.
C9_FlatTrendTracksPattern ==
    (Called /\ salesData = History14 /\ horizon = ForecastWeek) =>
        /\ 2 * Abs(slopeNum(ys(salesData))) < slopeDen(ys(salesData))
        /\ Len(result.value) = 7
        /\ \A k \in 1 .. 7 : Abs(ReturnedValues[k] - WeekPattern[k]) <= 5
        /\ ReturnedDates = [k \in 1 .. 7 |-> <<2025, 1, 14 + k>>]

\* C9 amended: on that example the slope is 48/91 (about 0.53, a rising
\* trend), the forecast values are 104, 106, 104, 108, 111, 110, 112, each at
\* or above the pattern value of its position and at most 6 above it, and the
\* dates are 2025-01-15 .. 21.
C9_RisingTrendBlend ==
    (Called /\ salesData = History14 /\ horizon = ForecastWeek) =>
        /\ 91 * slopeNum(ys(salesData)) = 48 * slopeDen(ys(salesData))
        /\ ReturnedValues = <<104, 106, 104, 108, 111, 110, 112>>
        /\ \A k \in 1 .. 7 :
               /\ ReturnedValues[k] >= WeekPattern[k]
               /\ ReturnedValues[k] - WeekPattern[k] <= 6
        /\ ReturnedDates = [k \in 1 .. 7 |-> <<2025, 1, 14 + k>>]

C9_Witness ==
    /\ Called /\ salesData = History14 /\ horizon = ForecastWeek
    /\ result.status = "returned" /\ Len(result.value) = 7

\* C10: for a 2-point history with values 10 and 20 and horizon 3 the call
\* returns 3 points, the trend component rises strictly from step to step,
\* and every returned value is >= 0.
C10_TwoPointsRisingTrend ==
    (Called /\ ys(salesData) = NumberSeq(<<10, 20>>) /\ horizon = 3
            /\ DatesParse(salesData)) =>
        /\ result.status = "returned" /\ Len(result.value) = 3
        /\ interceptDen(ys(salesData)) > 0
        /\ \A i \in 0 .. 1 :
               trendNum(Fit(ys(salesData)), 2 + i)
                   < trendNum(Fit(ys(salesData)), 3 + i)
        /\ \A k \in 1 .. 3 :
               ~result.value[k].forecast.nan /\ ReturnedValues[k] >= 0

C10_Witness ==
    /\ Called /\ salesData = History2 /\ horizon = 3
    /\ ReturnedValues = <<20, 30, 30>>

-----------------------------------------------------------------------------
(* Properties of repeated calls *)

SameInputAsMemo ==
    Called /\ memo.set /\ memo.salesData = salesData /\ memo.horizon = horizon

-----------------------------------------------------------------------------
(* Longer histories: one call on histories of up to MaxPoints points, long  *)
(* enough for the 14-value pattern window to be a proper tail and for the   *)
(* horizon to run past it.                                                  *)

Shapes == { "flat", "rising", "falling", "cycle", "gaps", "dip" }

\* the value of point i (from 1) of a history of the given shape
ShapeValue(shape, i) ==
    CASE shape = "flat"    -> Number(20)
      [] shape = "rising"  -> Number(3 * i)
      [] shape = "falling" -> Number(50 - 7 * i)
      [] shape = "cycle"   -> Number(10 + 5 * (i % 7))
      [] shape = "gaps"    -> IF i % 2 = 0 THEN Undefined ELSE Number(4 * i)
      [] OTHER             -> IF i % 5 = 0 THEN Number(-90) ELSE Number(20 + i)

ShapeHistory(shape, n) ==
    History([i \in 1 .. n |-> ShapeValue(shape, i)], Daily(<<2025, 1, 14>>, n))

InitShapes ==
    /\ tz \in Zones
    /\ \E shape \in Shapes, n \in 0 .. MaxPoints :
           salesData = ShapeHistory(shape, n)
    /\ horizon \in { 1, ForecastWeek, ForecastMonth }
    /\ result = NoCall
    /\ memo = NoMemo
    /\ PageUnmounted
    /\ NoAccounts
    /\ RestIdle

SpecShapes == InitShapes /\ [][Next]_vars

-----------------------------------------------------------------------------
(* Properties of the regression, the pattern and the blend *)

RECURSIVE Sigma(_, _, _)
\* the sum of f[i] for i in lo .. hi
Sigma(f, lo, hi) == IF lo > hi THEN 0 ELSE f[hi] + Sigma(f, lo, hi - 1)

\* the values in order, a missing or falsy value counted as 0
ValueOrZero(h) ==
    [i \in 1 .. Len(h) |->
        IF h[i].revenue.kind = "number" THEN h[i].revenue.val ELSE 0]

\* the sums of ordinary least squares over x = 0 .. n - 1, y = the values
OlsSx(h) == (Len(h) * (Len(h) - 1)) \div 2
OlsSxx(h) == ((Len(h) - 1) * Len(h) * (2 * Len(h) - 1)) \div 6
OlsSy(h) == Sigma(ValueOrZero(h), 1, Len(h))
OlsSxy(h) ==
    Sigma([i \in 1 .. Len(h) |-> (i - 1) * ValueOrZero(h)[i]], 1, Len(h))

OlsSlopeNum(h) == Len(h) * OlsSxy(h) - OlsSx(h) * OlsSy(h)
OlsSlopeDen(h) == Len(h) * OlsSxx(h) - OlsSx(h) * OlsSx(h)

\* n * slopeDen times the residual of point i under the fitted line
Residual(h, i) ==
    ValueOrZero(h)[i] * interceptDen(ys(h))
        - slopeNum(ys(h)) * (i - 1) * Len(h) - interceptNum(ys(h))

\* C13: for n >= 2 the slope and intercept in use are the least-squares
\* coefficients over x = 0 .. n-1: slope = (n*Sxy - Sx*Sy) / (n*Sxx - Sx*Sx),
\* intercept = (Sy - slope*Sx) / n, with a missing value counted as 0; so the
\* residuals sum to 0 and are orthogonal to x (the normal equations).
C13_LeastSquaresCoefficients ==
    (Called /\ Len(salesData) >= 2 /\ ValuesNumeric(salesData)) =>
        LET h == salesData
            y == ys(h)
        IN  /\ slopeDen(y) = OlsSlopeDen(h)
            /\ slopeNum(y) = OlsSlopeNum(h)
            /\ interceptDen(y) = OlsSlopeDen(h) * Len(h)
            /\ interceptNum(y)
                   = OlsSy(h) * OlsSlopeDen(h) - OlsSlopeNum(h) * OlsSx(h)
            /\ Sigma([i \in 1 .. Len(h) |-> Residual(h, i)], 1, Len(h)) = 0
            /\ Sigma([i \in 1 .. Len(h) |-> (i - 1) * Residual(h, i)],
                     1, Len(h)) = 0

C13_Witness ==
    /\ Called /\ Len(salesData) = MaxPoints
    /\ \E i \in 1 .. Len(salesData) : salesData[i].revenue.kind = "undefined"
    /\ slopeNum(ys(salesData)) > 0
    /\ interceptNum(ys(salesData)) /= 0

\* C14: for n >= 2 the regression denominator n*Sxx - Sx*Sx is strictly
\* positive (it is n*n*(n*n - 1)/12), so the replace-zero-by-1 fallback is not
\* taken and the division is by that denominator.
C14_DenominatorPositive ==
    (Called /\ Len(salesData) >= 2) =>
        LET y == ys(salesData)
            n == Len(y)
            d == n * sumXX(y) - sumX(y) * sumX(y)
        IN  d > 0 /\ slopeDen(y) = d /\ 12 * d = n * n * (n * n - 1)

C14_Witness ==
    /\ Called /\ Len(salesData) = MaxPoints
    /\ slopeDen(ys(salesData)) > 1

\* C15: the pattern component of step i is the historical value at index
\* n - w + (i mod w), w = min(14, n): the trailing w values in order, repeated
\* cyclically, so steps i and i + w use the same pattern value.
C15_PatternIsTrailingWindow ==
    (Called /\ Len(salesData) >= 2 /\ ValuesNumeric(salesData)) =>
        LET y == ys(salesData)
            n == Len(y)
            w == IF n < 14 THEN n ELSE 14
        IN  /\ Len(pattern(y)) = w
            /\ \A i \in 0 .. ToLength(horizon) - 1 :
                   /\ patternValue(Fit(y), i)
                          = ValueOrZero(salesData)[n - w + (i % w) + 1]
                   /\ i + w <= ToLength(horizon) - 1
                          => patternValue(Fit(y), i + w) = patternValue(Fit(y), i)

\* a history longer than the window, and a horizon longer than it too
C15_Witness ==
    /\ Called /\ Len(salesData) > PatternDays /\ horizon > PatternDays
    /\ pattern(ys(salesData)) /= SubSeq(ys(salesData), 1, PatternDays)
    /\ result.status = "returned"

\* the blend of step i as a fraction: (trend_i + pattern_i) / 2 with
\* trend_i = slope * (n + i) + intercept, over the denominator 2 * n * slopeDen
BlendNum(h, i) ==
    slopeNum(ys(h)) * (Len(h) + i) * Len(h) + interceptNum(ys(h))
        + ValueOrZero(h)[Len(h) - patternWindow(ys(h))
                             + (i % patternWindow(ys(h))) + 1]
            * interceptDen(ys(h))

BlendDen(h) == 2 * interceptDen(ys(h))

\* r is a nearest integer to num / den (den > 0)
IsNearest(r, num, den) ==
    (2 * r - 1) * den <= 2 * num /\ 2 * num <= (2 * r + 1) * den

\* C16: every returned value of step i is max(0, round((trend_i + pattern_i)
\* / 2)): an integer that is 0 when the blend rounds below 0 and otherwise a
\* nearest integer to the unweighted mean of trend and pattern.
C16_ValueIsClampedRoundedMean ==
    (Called /\ result.status = "returned" /\ ValuesNumeric(salesData)) =>
        \A k \in 1 .. Len(result.value) :
            LET v == result.value[k].forecast
                num == BlendNum(salesData, k - 1)
                den == BlendDen(salesData)
            IN  /\ ~v.nan /\ v.val \in Int /\ v.val >= 0 /\ den > 0
                /\ v.val > 0 => IsNearest(v.val, num, den)
                /\ v.val = 0 => 2 * num < den

\* a value rounded up from a half, a value rounded down, and a clamped one
C16_Witness ==
    /\ Called /\ result.status = "returned" /\ Len(salesData) > PatternDays
    /\ \E k \in 1 .. Len(result.value) :
           /\ result.value[k].forecast.val > 0
           /\ BlendNum(salesData, k - 1) % BlendDen(salesData) /= 0
    /\ \E k \in 1 .. Len(result.value) :
           /\ result.value[k].forecast.val = 0
           /\ BlendNum(salesData, k - 1) < 0

-----------------------------------------------------------------------------
(* processChartData (src/src/pages/Sales.tsx, lines 138-166).  An order is  *)
(* [created_at, total_amount]: created_at a time value (a timestamptz read  *)
(* by new Date), total_amount a value as in a history's revenue.            *)

At(y, m, d, h) == MakeDay(y, m - 1, d) * 24 + h

\* const date = new Date(order.created_at)
OrderDate(order) == [valid |-> TRUE, t |-> order.created_at]

\* date.getDay(), date.getFullYear(), date.getMonth(): local calendar fields
getDay(zone, date) == WeekDay(LocalTime(zone, date.t) \div 24)
getFullYear(zone, date) == YearFromDay(LocalTime(zone, date.t) \div 24)
getMonth(zone, date) == MonthFromDay(LocalTime(zone, date.t) \div 24)

\* the switch on range: the key of the period an order falls in
periodKey(zone, order, range) ==
    LET date == OrderDate(order)
    IN  IF range = "weekly"
        THEN toISODate(setDate(zone, date,
                 Finite(getDate(zone, date).val - getDay(zone, date))))
        ELSE IF range = "monthly"
        THEN <<getFullYear(zone, date), getMonth(zone, date) + 1>>
        ELSE toISODate(date)

\* A double keeps SignificandBits significant bits.  Amounts are counted in a
\* unit that is a power of two, so that a whole number below
\* 2^SignificandBits is a double and a sum beyond it is rounded.
SignificandBits == 8

RECURSIVE Ulp(_)
\* the spacing of the doubles around a whole number n >= 0
Ulp(n) == IF n < 2^SignificandBits THEN 1 ELSE 2 * Ulp(n \div 2)

\* the double nearest to a whole number n >= 0, a tie going to the even
\* significand
RoundMagnitude(n) ==
    LET q     == Ulp(n)
        lower == n \div q
    IN  IF 2 * (n % q) < q THEN lower * q
        ELSE IF 2 * (n % q) > q THEN (lower + 1) * q
        ELSE IF lower % 2 = 0 THEN lower * q
        ELSE (lower + 1) * q

Round(n) == IF n < 0 THEN 0 - RoundMagnitude(0 - n) ELSE RoundMagnitude(n)

\* a + b on doubles
Plus(a, b) == Round(a + b)

\* Number(order.total_amount) || 0
amountOf(order) ==
    IF order.total_amount.kind = "number" THEN order.total_amount.val ELSE 0

MapAdd_Overwrite(dataMap, key, amount) ==
    IF \E i \in 1 .. Len(dataMap) : dataMap[i].date = key
    THEN [i \in 1 .. Len(dataMap) |->
             IF dataMap[i].date = key
             THEN [date |-> key, revenue |-> Number(amount), orders |-> 1]
             ELSE dataMap[i]]
    ELSE Append(dataMap,
                [date |-> key, revenue |-> Number(amount), orders |-> 1])

\* one pass of orders.forEach over the Map, kept as the sequence of its
\* values in insertion order
MapAdd(dataMap, key, amount) ==
    IF \E i \in 1 .. Len(dataMap) : dataMap[i].date = key
    THEN [i \in 1 .. Len(dataMap) |->
             IF dataMap[i].date = key
             THEN [date    |-> key,
                   revenue |-> Number(Plus(dataMap[i].revenue.val, amount)),
                   orders  |-> dataMap[i].orders + 1]
             ELSE dataMap[i]]
    ELSE Append(dataMap,
                [date |-> key, revenue |-> Number(Plus(0, amount)),
                 orders |-> 1])

RECURSIVE dataMapAfter(_, _, _, _)
\* the Map after the first k orders have been added
dataMapAfter(zone, orderList, range, k) ==
    IF k = 0 THEN <<>>
    ELSE MapAdd(dataMapAfter(zone, orderList, range, k - 1),
                periodKey(zone, orderList[k], range), amountOf(orderList[k]))

RECURSIVE LexCompare(_, _, _)
\* a.localeCompare(b) for keys of digits and hyphens: -1, 0 or 1 by the first
\* field that differs, a key that is a proper prefix coming first
LexCompare(a, b, k) ==
    IF k > Len(a) /\ k > Len(b) THEN 0
    ELSE IF k > Len(a) THEN -1
    ELSE IF k > Len(b) THEN 1
    ELSE IF a[k] < b[k] THEN -1
    ELSE IF a[k] > b[k] THEN 1
    ELSE LexCompare(a, b, k + 1)

localeCompare(a, b) == LexCompare(a, b, 1)

RECURSIVE sortByDate_Reversed(_)
sortByDate_Reversed(buckets) ==
    IF Len(buckets) = 0 THEN <<>>
    ELSE Append(sortByDate_Reversed(Tail(buckets)), Head(buckets))

RECURSIVE sortByDate(_)
\* .sort((a, b) => a.date.localeCompare(b.date)): a stable sort, ascending
sortByDate(buckets) ==
    IF Len(buckets) = 0 THEN <<>>
    ELSE LET last == buckets[Len(buckets)]
             rest == sortByDate(SubSeq(buckets, 1, Len(buckets) - 1))
             k    == Cardinality({ i \in 1 .. Len(rest) :
                         localeCompare(rest[i].date, last.date) <= 0 })
         IN  SubSeq(rest, 1, k) \o <<last>> \o SubSeq(rest, k + 1, Len(rest))

processChartDataIn(zone, orderList, range) ==
    sortByDate(dataMapAfter(zone, orderList, range, Len(orderList)))

processChartData(orderList, range) == processChartDataIn(tz, orderList, range)

NoMetrics ==
    [totalRevenue |-> 0, avgOrderValue |-> <<0, 1>>, totalOrders |-> 0]

RECURSIVE totalRevenueOf(_)
\* filteredOrders.reduce((sum, order) => sum + (Number(order.total_amount)
\* || 0), 0)
totalRevenueOf(orderList) ==
    IF Len(orderList) = 0 THEN 0
    ELSE Plus(totalRevenueOf(SubSeq(orderList, 1, Len(orderList) - 1)),
              amountOf(orderList[Len(orderList)]))

\* totalRevenue, totalOrders and avgOrderValue; the quotient is kept as
\* <<numerator, denominator>>, the 0 of an empty list as <<0, 1>>
metricsOf(orderList) ==
    [totalRevenue |-> totalRevenueOf(orderList),
     avgOrderValue |-> IF Len(orderList) > 0
                       THEN <<totalRevenueOf(orderList), Len(orderList)>>
                       ELSE <<0, 1>>,
     totalOrders |-> Len(orderList)]

-----------------------------------------------------------------------------
(* One call of processChartData on a list of orders in any order *)

MaxOrders == 3       \* longest list of orders handed to processChartData

\* instants around a week's, a month's and a day's end, and across the start
\* of daylight time
Instants ==
    { At(2025, 3, 5, 15), At(2025, 3, 9, 3), At(2025, 3, 9, 12),
      At(2025, 5, 31, 23), At(2025, 6, 1, 2), At(2025, 6, 10, 10) }

Amounts == { Number(30), Number(-5), Undefined }

Order(t, amount) == [created_at |-> t, total_amount |-> amount]

\* the smallest amount whose sum with one unit is not a double
Large == 2^SignificandBits

\* an order of one week followed by two orders of a later week, each of one
\* unit or of a large amount
RoundedLists ==
    { <<Order(At(2025, 3, 5, 15), a), Order(At(2025, 3, 9, 12), b),
        Order(At(2025, 3, 9, 12), c)>> :
          a \in { Number(1), Number(Large) }, b \in { Number(1), Number(Large) },
          c \in { Number(1), Number(Large) } }

OrderLists ==
    UNION { [1 .. n -> { Order(t, Number(30)) : t \in Instants }]
               : n \in 0 .. MaxOrders }
      \cup { <<Order(t, a), Order(u, b)>> :
                 t \in { At(2025, 3, 9, 3) }, u \in { At(2025, 3, 9, 12) },
                 a \in Amounts, b \in Amounts }
      \cup RoundedLists

TimeRanges == { "daily", "weekly", "monthly" }

InitChart ==
    /\ tz \in Zones
    /\ orders \in OrderLists
    /\ timeRange \in TimeRanges
    /\ salesData = <<>>
    /\ horizon = ForecastWeek
    /\ result = NoCall
    /\ memo = NoMemo
    /\ dateRange = [start |-> <<2025, 6, 1>>, end |-> <<2025, 8, 31>>]
    /\ forecastRange = "week"
    /\ combinedChartData = <<>>
    /\ inflight = {}
    /\ NoAccounts
    /\ RestIdle

\* const processedData = processChartData(filteredOrders, timeRange);
\* setSalesData(processedData); setMetrics({...}), and the render that follows
Process ==
    /\ result.status = "none"
    /\ salesData' = processChartData(orders, timeRange)
    /\ metrics' = metricsOf(orders)
    /\ result' = getForecastData(salesData', horizon)
    /\ UNCHANGED <<tz, horizon, memo, orders, timeRange, dateRange,
                   forecastRange, combinedChartData, inflight, roleVars,
                   role_check, refreshVars, scriptVars, loading, timers,
                   mounted, shown>>

NextChart == Process

SpecChart == InitChart /\ [][NextChart]_vars

Processed == result.status /= "none"

\* C18: for any list of orders in any order and any grouping, processChartData
\* returns exactly one bucket per distinct period key of the orders, and the
\* buckets are sorted strictly ascending by date.
C18_BucketsDistinctAndAscending ==
    Processed =>
        /\ { salesData[i].date : i \in 1 .. Len(salesData) }
               = { periodKey(tz, orders[k], timeRange) : k \in 1 .. Len(orders) }
        /\ \A i \in 1 .. Len(salesData) - 1 :
               localeCompare(salesData[i].date, salesData[i + 1].date) < 0

\* orders given newest first, two of them sharing a period
C18_Witness ==
    /\ Processed
    /\ Len(orders) = MaxOrders
    /\ orders[1].created_at > orders[2].created_at
    /\ Len(salesData) = 2
    /\ \E i \in 1 .. 2 : salesData[i].orders = 2

RECURSIVE SumOf(_, _)
\* the sum over the first k buckets, as whole numbers, of a field's values
SumOf(values, k) == IF k = 0 THEN 0 ELSE SumOf(values, k - 1) + values[k]

BucketRevenue == [i \in 1 .. Len(salesData) |-> salesData[i].revenue.val]
BucketOrders == [i \in 1 .. Len(salesData) |-> salesData[i].orders]

Magnitude(n) == IF n < 0 THEN 0 - n ELSE n

\* every sum of some of the amounts is a double: no addition is rounded
ExactAmounts ==
    SumOf([k \in 1 .. Len(orders) |-> Magnitude(amountOf(orders[k]))],
          Len(orders)) <= 2^SignificandBits

AvgIsQuotient ==
    metrics.avgOrderValue =
        IF metrics.totalOrders > 0
        THEN <<metrics.totalRevenue, metrics.totalOrders>>
        ELSE <<0, 1>>

\* C28 as stated: for any list of filtered orders and any grouping, the sum
\* of bucket revenue equals metrics.totalRevenue, the sum of bucket order
\* counts equals metrics.totalOrders, and metrics.avgOrderValue is
\* totalRevenue / totalOrders, or 0 when there are no orders.
C28_BucketsPartitionOrders ==
    Processed =>
        /\ SumOf(BucketRevenue, Len(salesData)) = metrics.totalRevenue
        /\ SumOf(BucketOrders, Len(salesData)) = metrics.totalOrders
        /\ AvgIsQuotient

\* C28 amended: the bucket order counts always sum to metrics.totalOrders
\* and avgOrderValue is always the quotient (0 without orders); the bucket
\* revenues sum to metrics.totalRevenue when no addition of amounts is
\* rounded.
C28_BucketsPartitionExactAmounts ==
    Processed =>
        /\ SumOf(BucketOrders, Len(salesData)) = metrics.totalOrders
        /\ metrics.totalOrders = Len(orders)
        /\ AvgIsQuotient
        /\ ExactAmounts =>
               SumOf(BucketRevenue, Len(salesData)) = metrics.totalRevenue

\* three orders in two buckets, the sums exact and equal
C28_Witness ==
    /\ Processed
    /\ ExactAmounts
    /\ Len(orders) = 3 /\ Len(salesData) = 2
    /\ metrics.totalRevenue = 90
    /\ SumOf(BucketRevenue, Len(salesData)) = 90
    /\ metrics.avgOrderValue = <<90, 3>>

-----------------------------------------------------------------------------
(* The Sales page (src/src/pages/Sales.tsx, lines 45-193): its selections,  *)
(* the fetches of its effect, and what each render computes.                *)

MaxInflight == 1     \* most fetches awaiting their answer at one time
MaxDelivered == 1    \* most orders delivered while the page is open

Null == [null |-> TRUE]

\* orderDate >= dateRange.start && orderDate <= dateRange.end, orderDate the
\* UTC date of created_at
InDateRange(order, range) ==
    LET orderDate == toISODate(OrderDate(order))
    IN  /\ localeCompare(orderDate, range.start) >= 0
        /\ localeCompare(orderDate, range.end) <= 0

filteredOrders(orderList, range) ==
    SelectSeq(orderList, LAMBDA order : InDateRange(order, range))

forecastData_Memoised(history, range) ==
    IF result.status = "returned" /\ Len(result.value) > 0
    THEN result
    ELSE getForecastData(history, forecastPeriods[range])

\* const forecastData = getForecastData(salesData, forecastPeriods[forecastRange])
forecastData(history, range) ==
    getForecastData(history, forecastPeriods[range])

\* the historical points, then the forecast points; [] without history
combinedChartDataOf(history, forecast) ==
    IF Len(history) = 0 THEN <<>>
    ELSE [i \in 1 .. Len(history) |->
             [date |-> history[i].date, revenue |-> history[i].revenue,
              forecast |-> Null]]
         \o [i \in 1 .. Len(forecast) |->
                [date |-> forecast[i].date, revenue |-> Null,
                 forecast |-> forecast[i].forecast]]

\* the render that follows a change of state: forecastData and
\* combinedChartData are computed again from the new state
Render ==
    /\ horizon' = forecastPeriods[forecastRange']
    /\ result' = forecastData(salesData', forecastRange')
    /\ combinedChartData' =
           IF result'.status = "returned"
           THEN combinedChartDataOf(salesData', result'.value)
           ELSE <<>>

\* a fetch of the effect, with the timeRange and dateRange its closure holds
Fetch(range, dates) == [timeRange |-> range, dateRange |-> dates]

CanFetch(request) ==
    request \in inflight \/ Cardinality(inflight) < MaxInflight

DefaultDateRange == [start |-> <<2025, 6, 1>>, end |-> <<2025, 8, 31>>]

StartInputs == { <<2025, 3, 1>>, <<2025, 6, 1>> }
EndInputs == { <<2025, 3, 31>>, <<2025, 8, 31>> }
ForecastRanges == { "week", "month", "year" }

\* the delivered orders at mount, and those delivered later
Backend ==
    << Order(At(2025, 3, 5, 15), Number(30)),
       Order(At(2025, 3, 9, 12), Number(20)),
       Order(At(2025, 6, 10, 10), Number(50)),
       Order(At(2025, 6, 11, 23), Number(10)) >>

LateOrders ==
    << Order(At(2025, 6, 12, 9), Number(40)),
       Order(At(2025, 6, 12, 17), Number(25)) >>

PageZones == { z \in Zones : z.name \in { "America/New_York", "Asia/Tokyo" } }

\* the first render and the fetch of the effect at mount
InitPage ==
    /\ tz \in PageZones
    /\ orders = Backend
    /\ timeRange = "daily"
    /\ dateRange = DefaultDateRange
    /\ salesData = <<>>
    /\ forecastRange = "week"
    /\ horizon = forecastPeriods["week"]
    /\ result = Returned(<<>>)
    /\ combinedChartData = <<>>
    /\ inflight = { Fetch("daily", DefaultDateRange) }
    /\ memo = NoMemo
    /\ NoAccounts
    /\ RestIdle

\* setTimeRange(e.target.value); the effect runs again and fetches
SetTimeRange ==
    \E range \in TimeRanges \ { timeRange } :
        /\ CanFetch(Fetch(range, dateRange))
        /\ timeRange' = range
        /\ inflight' = inflight \cup { Fetch(range, dateRange) }
        /\ UNCHANGED <<dateRange, forecastRange, salesData>>
        /\ Render
        /\ UNCHANGED <<tz, memo, orders, roleVars,
                   restVars>>

\* setDateRange(prev => ({ ...prev, start })), and the same for end
SetDateRange ==
    \E dates \in { [dateRange EXCEPT !.start = d] : d \in StartInputs }
                   \cup { [dateRange EXCEPT !.end = d] : d \in EndInputs } :
        /\ dates /= dateRange
        /\ CanFetch(Fetch(timeRange, dates))
        /\ dateRange' = dates
        /\ inflight' = inflight \cup { Fetch(timeRange, dates) }
        /\ UNCHANGED <<timeRange, forecastRange, salesData>>
        /\ Render
        /\ UNCHANGED <<tz, memo, orders, roleVars,
                   restVars>>

\* setForecastRange(e.target.value)
SetForecastRange ==
    \E range \in ForecastRanges \ { forecastRange } :
        /\ forecastRange' = range
        /\ UNCHANGED <<timeRange, dateRange, salesData, inflight>>
        /\ Render
        /\ UNCHANGED <<tz, memo, orders, roleVars,
                   restVars>>

\* the interval fires: refreshWithoutLoading fetches for the selection the
\* effect holds
Refresh ==
    /\ CanFetch(Fetch(timeRange, dateRange))
    /\ inflight' = inflight \cup { Fetch(timeRange, dateRange) }
    /\ UNCHANGED <<timeRange, dateRange, forecastRange, salesData>>
    /\ Render
    /\ UNCHANGED <<tz, memo, orders, roleVars,
                   restVars>>

\* getSalesData answers: filter, processChartData, setSalesData
Resolve ==
    \E request \in inflight :
        /\ inflight' = inflight \ { request }
        /\ salesData' = processChartData(
               filteredOrders(orders, request.dateRange), request.timeRange)
        /\ UNCHANGED <<timeRange, dateRange, forecastRange>>
        /\ Render
        /\ UNCHANGED <<tz, memo, orders, roleVars,
                   restVars>>

\* getSalesData throws: the catch logs and salesData is kept
Reject ==
    \E request \in inflight :
        /\ inflight' = inflight \ { request }
        /\ UNCHANGED <<timeRange, dateRange, forecastRange, salesData>>
        /\ Render
        /\ UNCHANGED <<tz, memo, orders, roleVars,
                   restVars>>

\* an order reaches status 'delivered' in the backend
OrderDelivered ==
    /\ Len(orders) - Len(Backend) < MaxDelivered
    /\ Len(orders) - Len(Backend) < Len(LateOrders)
    /\ orders' = Append(orders, LateOrders[Len(orders) - Len(Backend) + 1])
    /\ UNCHANGED <<tz, salesData, horizon, result, memo, timeRange, dateRange,
                   forecastRange, combinedChartData, inflight, roleVars,
                   restVars>>

NextPage ==
    \/ SetTimeRange
    \/ SetDateRange
    \/ SetForecastRange
    \/ Refresh
    \/ Resolve
    \/ Reject
    \/ OrderDelivered

SpecPage == InitPage /\ [][NextPage]_vars

-----------------------------------------------------------------------------
(* Properties of the Sales page *)

\* what a fetch for the current selection would now put in salesData
SelectionData ==
    processChartData(filteredOrders(orders, dateRange), timeRange)

\* the horizon each forecast range stands for
RangeHorizon ==
    IF forecastRange = "week" THEN 7
    ELSE IF forecastRange = "month" THEN 30
    ELSE 365

\* C17: with timeRange 'weekly' or 'monthly' and the history grouped that
\* way, the forecast still has 7, 30 or 365 steps and its dates advance by
\* exactly one calendar day per step from the last historical key.
C17_DailyStrideInEveryGrouping ==
    (timeRange \in { "weekly", "monthly" } /\ salesData = SelectionData
         /\ Len(salesData) >= 2) =>
        /\ result.status = "returned"
        /\ Len(result.value) = RangeHorizon
        /\ \A k \in 1 .. Len(result.value) :
               result.value[k].date
                   = DaysAfter(salesData[Len(salesData)].date, k)

\* C19: combinedChartData is empty when salesData is empty, and otherwise is
\* the historical points (forecast null) followed by the forecast points
\* (revenue null), len(salesData) + len(forecastData) entries in all, every
\* forecast entry dated strictly after the last historical date.
C19_HistoryThenForecast ==
    IF Len(salesData) = 0 THEN combinedChartData = <<>>
    ELSE LET n == Len(salesData)
         IN  /\ result.status = "returned"
             /\ Len(combinedChartData) = n + Len(result.value)
             /\ \A i \in 1 .. n :
                    /\ combinedChartData[i].forecast = Null
                    /\ combinedChartData[i].revenue = salesData[i].revenue
                    /\ combinedChartData[i].date = salesData[i].date
             /\ \A k \in 1 .. Len(result.value) :
                    /\ combinedChartData[n + k].revenue = Null
                    /\ combinedChartData[n + k].forecast
                           = result.value[k].forecast
                    /\ combinedChartData[n + k].date = result.value[k].date
                    /\ NewDate(combinedChartData[n + k].date).t
                           > NewDate(salesData[n].date).t

\* C20: in every state of the page the forecast on display is
\* getForecastData of the current salesData with horizon 7, 30 or 365 for
\* forecastRange 'week', 'month' or 'year'.
C20_ForecastIsCurrent ==
    /\ horizon = RangeHorizon
    /\ result = getForecastDataIn(tz, salesData, RangeHorizon)
    /\ Len(salesData) > 0 =>
           SubSeq(combinedChartData, Len(salesData) + 1, Len(combinedChartData))
               = [k \in 1 .. Len(result.value) |->
                     [date |-> result.value[k].date, revenue |-> Null,
                      forecast |-> result.value[k].forecast]]

\* a year's forecast on display while a fetch for another selection is in
\* flight, over data that an order delivered since has made out of date
C20_Witness ==
    /\ forecastRange = "year" /\ Len(result.value) = 365
    /\ inflight /= {}
    /\ salesData /= SelectionData
    /\ Len(orders) > Len(Backend)

-----------------------------------------------------------------------------
(* Accounts and roles: auth.users, dashboard_users and its trigger         *)
(* (src/unnamed/part_000, src/supabase/migrations), the role the client    *)
(* holds (src/src/types/index.ts) and the navigation bar it filters        *)
(* (src/src/components/Navigation.tsx).  A table is a function from the     *)
(* ids of its rows; a NULL column is the string "NULL", a null role "null". *)

MaxAccounts == 2     \* most rows of auth.users at one time

UserIds == { "u1", "u2", "u3" }
Emails == { "dq@gmail.com", "sam@shop.example" }
FullNames == { "Sam Lee" }
Roles == { "ceo", "manager", "staff" }

NoRows == <<>>

\* table with the row of id replaced or added
WithRow(table, id, row) ==
    [u \in DOMAIN table \cup { id } |-> IF u = id THEN row ELSE table[u]]

\* table without the row of id
WithoutRow(table, id) == [u \in DOMAIN table \ { id } |-> table[u]]

\* dashboard_users.email is UNIQUE NOT NULL: may the row of id hold email?
EmailAllowed(table, id, email) ==
    /\ email /= "NULL"
    /\ \A u \in DOMAIN table \ { id } : table[u].email /= email

\* COALESCE(a, b)
Coalesce(a, b) == IF a /= "NULL" THEN a ELSE b

Failed == [error |-> TRUE, table |-> NoRows]

Done(table) == [error |-> FALSE, table |-> table]

handle_new_user_RoleReset(table, new) ==
    IF ~EmailAllowed(table, new.id, new.email) THEN Failed
    ELSE Done(WithRow(table, new.id,
                  [email |-> new.email,
                   full_name |-> Coalesce(new.full_name, "Dashboard User"),
                   role |-> IF new.id \in DOMAIN table THEN "staff"
                            ELSE "admin"]))

\* handle_new_user(): INSERT ... VALUES (NEW.id, NEW.email, COALESCE(name,
\* 'Dashboard User'), 'staff') ON CONFLICT (id) DO UPDATE SET email,
\* full_name; a violated constraint raises and nothing is written
handle_new_user(table, new) ==
    IF ~EmailAllowed(table, new.id, new.email) THEN Failed
    ELSE IF new.id \in DOMAIN table
    THEN Done(WithRow(table, new.id,
                  [table[new.id] EXCEPT
                      !.email = new.email,
                      !.full_name =
                          Coalesce(Coalesce(new.full_name, "Dashboard User"),
                                   table[new.id].full_name)]))
    ELSE Done(WithRow(table, new.id,
                  [email |-> new.email,
                   full_name |-> Coalesce(new.full_name, "Dashboard User"),
                   role |-> "staff"]))

\* the routes of App and the roles each ProtectedRoute requires
Routes ==
    << [path |-> "/",          requiredRoles |-> { "ceo", "staff" }],
       [path |-> "/sales",     requiredRoles |-> { "ceo" }],
       [path |-> "/customers", requiredRoles |-> { "ceo", "staff" }],
       [path |-> "/inventory", requiredRoles |-> { "ceo", "staff" }],
       [path |-> "/reports",   requiredRoles |-> { "ceo" }],
       [path |-> "/settings",  requiredRoles |-> { "ceo" }] >>

navigationItems ==
    << [path |-> "/",          allowedRoles |-> { "ceo", "staff" }],
       [path |-> "/sales",     allowedRoles |-> { "ceo" }],
       [path |-> "/customers", allowedRoles |-> { "ceo", "staff" }],
       [path |-> "/inventory", allowedRoles |-> { "ceo", "staff" }],
       [path |-> "/reports",   allowedRoles |-> { "ceo" }],
       [path |-> "/settings",  allowedRoles |-> { "ceo" }] >>

allowedNavigationItems_Unfiltered(role) ==
    SelectSeq(navigationItems, LAMBDA item : role /= "null")

\* navigationItems.filter(item => userRole && item.allowedRoles.includes(userRole))
allowedNavigationItems(role) ==
    SelectSeq(navigationItems,
              LAMBDA item : role /= "null" /\ role \in item.allowedRoles)

\* what the navigation bar renders for a role: the paths of its links
NavigationFor(role) ==
    [i \in 1 .. Len(allowedNavigationItems(role)) |->
        allowedNavigationItems(role)[i].path]

MaxLookups == 2      \* most role lookups awaiting their answer at one time

\* what the query of fetchUserRole can come back with for a user: the row's
\* role, an error (no row, or any other failure), or an exception
Reply(kind, role) == [kind |-> kind, role |-> role]

Replies(userId) ==
    { Reply("error", ""), Reply("throws", "") }
        \cup IF userId \in DOMAIN dashboard_users
             THEN { Reply("data", dashboard_users[userId].role) }
             ELSE {}

fetchUserRole_Trusting(reply) ==
    IF reply.kind = "data" THEN reply.role ELSE "ceo"

\* fetchUserRole: 'staff' on an error or an exception, else
\* data?.role || 'staff'
fetchUserRole(reply) ==
    IF reply.kind = "throws" THEN "staff"
    ELSE IF reply.kind = "error" THEN "staff"
    ELSE IF reply.role /= "" THEN reply.role
    ELSE "staff"

\* a role lookup awaited by updateAuthState, and what awaits it in turn:
\* initializeAuth or the auth listener
Lookup(userId, caller) == [userId |-> userId, then |-> caller]

CanLookup(lookup) ==
    lookup \in lookups \/ Cardinality(lookups) < MaxLookups

\* the CEO's account, as the CEO migration leaves it
CeoAccount ==
    [auth_users |->
         WithRow(NoRows, "u1",
                 [email |-> "dq@gmail.com", full_name |-> "NULL"]),
     dashboard_users |->
         WithRow(NoRows, "u1",
                 [email |-> "dq@gmail.com", full_name |-> "DQ (CEO)",
                  role |-> "ceo"])]

NoAccount == [auth_users |-> NoRows, dashboard_users |-> NoRows]

\* the accounts of a project where the role migration has run, and the
\* AuthProvider at its first render
InitRoles ==
    /\ \E accounts \in { NoAccount, CeoAccount } :
           /\ auth_users = accounts.auth_users
           /\ dashboard_users = accounts.dashboard_users
    /\ userRole = "null"
    /\ navigation = NavigationFor("null")
    /\ user = "null"
    /\ session = "null"
    /\ authLoading = TRUE
    /\ isInitialized = FALSE
    /\ lookups = {}
    /\ signOutCall = "none"
    /\ tz \in { z \in Zones : z.name = "UTC" }
    /\ salesData = <<>>
    /\ horizon = 0
    /\ result = NoCall
    /\ memo = NoMemo
    /\ PageUnmounted
    /\ RestIdle

\* INSERT INTO auth.users, and its AFTER INSERT trigger in the same
\* transaction: when the trigger raises, the insert is rolled back
InsertAuthUser ==
    \E id \in UserIds \ DOMAIN auth_users,
       email \in Emails \cup { "NULL" },
       name \in FullNames \cup { "NULL" } :
        /\ Cardinality(DOMAIN auth_users) < MaxAccounts
        /\ LET new == [id |-> id, email |-> email, full_name |-> name]
               done == handle_new_user(dashboard_users, new)
           IN  IF done.error
               THEN UNCHANGED <<auth_users, dashboard_users>>
               ELSE /\ auth_users' =
                        WithRow(auth_users, id,
                                [email |-> email, full_name |-> name])
                    /\ dashboard_users' = done.table
        /\ UNCHANGED <<userRole, navigation, authVars>>
        /\ UNCHANGED <<tz, salesData, horizon, result, memo, pageVars,
                       restVars>>

\* DELETE FROM auth.users: dashboard_users.id REFERENCES auth.users(id)
\* ON DELETE CASCADE
DeleteAuthUser ==
    \E id \in DOMAIN auth_users :
        /\ auth_users' = WithoutRow(auth_users, id)
        /\ dashboard_users' = WithoutRow(dashboard_users, id)
        /\ UNCHANGED <<userRole, navigation, authVars>>
        /\ UNCHANGED <<tz, salesData, horizon, result, memo, pageVars,
                       restVars>>

\* UPDATE dashboard_users SET role: any of the roles the CHECK allows
UpdateRole ==
    \E id \in DOMAIN dashboard_users, role \in Roles :
        /\ role /= dashboard_users[id].role
        /\ dashboard_users' =
               WithRow(dashboard_users, id,
                       [dashboard_users[id] EXCEPT !.role = role])
        /\ UNCHANGED <<auth_users, userRole, navigation, authVars>>
        /\ UNCHANGED <<tz, salesData, horizon, result, memo, pageVars,
                       restVars>>

\* updateAuthState(newSession) up to its await: setSession, setUser, and the
\* role lookup started for a user, or setUserRole(null) without one
updateAuthState(newSession, caller) ==
    /\ session' = newSession
    /\ user' = newSession
    /\ IF newSession /= "null"
       THEN /\ lookups' = lookups \cup { Lookup(newSession, caller) }
            /\ UNCHANGED userRole
       ELSE /\ userRole' = "null"
            /\ UNCHANGED lookups
    /\ navigation' = NavigationFor(userRole')

\* initializeAuth: getSession answers with the stored session, with none, or
\* with an error
InitialSession ==
    /\ ~isInitialized
    /\ lookups = {}
    /\ \E stored \in DOMAIN auth_users \cup { "null", "error" } :
           IF stored = "error"
           THEN /\ authLoading' = FALSE
                /\ isInitialized' = TRUE
                /\ UNCHANGED <<user, session, userRole, navigation, lookups>>
           ELSE /\ updateAuthState(stored, "initializeAuth")
                /\ IF stored = "null"
                   THEN authLoading' = FALSE /\ isInitialized' = TRUE
                   ELSE UNCHANGED <<authLoading, isInitialized>>
    /\ UNCHANGED <<auth_users, dashboard_users, signOutCall>>
    /\ UNCHANGED <<tz, salesData, horizon, result, memo, pageVars,
                       restVars>>

\* the auth listener on SIGNED_IN with a session
SignedIn ==
    \E id \in DOMAIN auth_users :
        /\ isInitialized
        /\ CanLookup(Lookup(id, "listener"))
        /\ updateAuthState(id, "listener")
        /\ UNCHANGED <<authLoading, isInitialized>>
        /\ UNCHANGED <<auth_users, dashboard_users, signOutCall>>
        /\ UNCHANGED <<tz, salesData, horizon, result, memo, pageVars,
                       restVars>>

\* the auth listener on TOKEN_REFRESHED: the session of the signed-in user
TokenRefreshed ==
    /\ isInitialized
    /\ session /= "null"
    /\ CanLookup(Lookup(session, "listener"))
    /\ updateAuthState(session, "listener")
    /\ UNCHANGED <<authLoading, isInitialized>>
    /\ UNCHANGED <<auth_users, dashboard_users, signOutCall>>
    /\ UNCHANGED <<tz, salesData, horizon, result, memo, pageVars,
                       restVars>>

\* the auth listener on SIGNED_OUT
SignedOut ==
    /\ isInitialized
    /\ session' = "null"
    /\ user' = "null"
    /\ userRole' = "null"
    /\ navigation' = NavigationFor(userRole')
    /\ authLoading' = FALSE
    /\ UNCHANGED <<isInitialized, lookups>>
    /\ UNCHANGED <<auth_users, dashboard_users, signOutCall>>
    /\ UNCHANGED <<tz, salesData, horizon, result, memo, pageVars,
                       restVars>>

\* a role lookup is answered: setUserRole(role), and what follows the await
\* of updateAuthState in its caller (setLoading(false), setIsInitialized)
LookupAnswered ==
    \E lookup \in lookups :
        \E reply \in Replies(lookup.userId) :
            /\ lookups' = lookups \ { lookup }
            /\ userRole' = fetchUserRole(reply)
            /\ navigation' = NavigationFor(userRole')
            /\ authLoading' = FALSE
            /\ isInitialized' =
                   IF lookup.then = "initializeAuth" THEN TRUE
                   ELSE isInitialized
            /\ UNCHANGED <<user, session>>
            /\ UNCHANGED <<auth_users, dashboard_users, signOutCall>>
            /\ UNCHANGED <<tz, salesData, horizon, result, memo, pageVars,
                       restVars>>

\* signOut() up to its await: setLoading(true)
SignOutCalled ==
    /\ signOutCall /= "pending"
    /\ signOutCall' = "pending"
    /\ authLoading' = TRUE
    /\ UNCHANGED <<user, session, userRole, navigation, isInitialized, lookups>>
    /\ UNCHANGED <<auth_users, dashboard_users>>
    /\ UNCHANGED <<tz, salesData, horizon, result, memo, pageVars,
                       restVars>>

\* supabase.auth.signOut() answers without an error: signOut returns
SignOutDone ==
    /\ signOutCall = "pending"
    /\ signOutCall' = "returned"
    /\ UNCHANGED <<user, session, userRole, navigation, authLoading,
                   isInitialized, lookups>>
    /\ UNCHANGED <<auth_users, dashboard_users>>
    /\ UNCHANGED <<tz, salesData, horizon, result, memo, pageVars,
                       restVars>>

SignOutFailed_OnlyRethrows ==
    /\ signOutCall = "pending"
    /\ signOutCall' = "threw"
    /\ authLoading' = FALSE
    /\ UNCHANGED <<user, session, userRole, navigation, isInitialized, lookups>>
    /\ UNCHANGED <<auth_users, dashboard_users>>
    /\ UNCHANGED <<tz, salesData, horizon, result, memo, pageVars,
                       restVars>>

\* supabase.auth.signOut() answers with an error or throws: the catch clears
\* the state and throws the error again
SignOutFailed ==
    /\ signOutCall = "pending"
    /\ signOutCall' = "threw"
    /\ session' = "null"
    /\ user' = "null"
    /\ userRole' = "null"
    /\ navigation' = NavigationFor(userRole')
    /\ authLoading' = FALSE
    /\ UNCHANGED <<isInitialized, lookups>>
    /\ UNCHANGED <<auth_users, dashboard_users>>
    /\ UNCHANGED <<tz, salesData, horizon, result, memo, pageVars,
                       restVars>>

NextRoles ==
    \/ InsertAuthUser
    \/ DeleteAuthUser
    \/ UpdateRole
    \/ InitialSession
    \/ SignedIn
    \/ TokenRefreshed
    \/ SignedOut
    \/ LookupAnswered
    \/ SignOutCalled
    \/ SignOutDone
    \/ SignOutFailed

SpecRoles == InitRoles /\ [][NextRoles]_vars

-----------------------------------------------------------------------------
(* Properties of the roles *)

PathsOf(items) == { items[i].path : i \in 1 .. Len(items) }

\* C11: the pages the navigation bar offers to a role are exactly the routes
\* whose requiredRoles contain it: all six for 'ceo'; '/', '/customers' and
\* '/inventory' for 'staff'; none for a null role.
C11_NavigationMatchesRoutes ==
    LET offered == { navigation[i] : i \in 1 .. Len(navigation) }
    IN  /\ Len(navigation) = Cardinality(offered)
        /\ offered = { Routes[i].path :
                         i \in { j \in 1 .. Len(Routes) :
                                   userRole \in Routes[j].requiredRoles } }
        /\ userRole = "ceo" =>
               offered = { "/", "/sales", "/customers", "/inventory",
                           "/reports", "/settings" }
        /\ userRole = "staff" =>
               offered = { "/", "/customers", "/inventory" }
        /\ userRole = "null" => offered = {}

\* a staff member is signed in and sees three pages
C11_Witness ==
    /\ userRole = "staff"
    /\ \E id \in DOMAIN dashboard_users : dashboard_users[id].role = "staff"
    /\ Len(navigation) = 3

\* every table of at most two rows, and every new auth.users row
TablesOver(ids) ==
    { t \in [ids -> [email : Emails, full_name : FullNames \cup { "Dashboard User" },
                     role : Roles]] :
          \A u, v \in ids : u /= v => t[u].email /= t[v].email }

SomeTables == UNION { TablesOver(ids) : ids \in { {}, { "u1" }, { "u1", "u2" } } }

NewRows ==
    [id : { "u1", "u3" }, email : Emails \cup { "NULL" },
     full_name : FullNames \cup { "NULL" }]

\* the trigger on a table that has a row of the new id: the role stays, and
\* no other row changes
ConflictKeepsRole ==
    \A table \in SomeTables, new \in NewRows :
        LET done == handle_new_user(table, new)
        IN  (new.id \in DOMAIN table /\ ~done.error) =>
                /\ DOMAIN done.table = DOMAIN table
                /\ done.table[new.id].role = table[new.id].role
                /\ done.table[new.id].email = new.email
                /\ \A u \in DOMAIN table \ { new.id } : done.table[u] = table[u]

\* C12: a step that inserts a row into auth.users leaves a dashboard_users
\* row for that id, with role 'staff' when there was none; and where a row
\* for the id exists the trigger leaves its role as it was.
C12_NewUserGetsStaff ==
    [][\A id \in UserIds :
           (id \notin DOMAIN auth_users /\ id \in DOMAIN auth_users') =>
               /\ id \in DOMAIN dashboard_users'
               /\ id \notin DOMAIN dashboard_users =>
                      dashboard_users'[id].role = "staff"
               /\ id \in DOMAIN dashboard_users =>
                      dashboard_users'[id].role = dashboard_users[id].role
               /\ ConflictKeepsRole]_vars

\* a user who signed up without a name, beside one promoted since
C12_Witness ==
    /\ \E id \in DOMAIN auth_users :
           /\ id \in DOMAIN dashboard_users
           /\ dashboard_users[id].role = "staff"
           /\ dashboard_users[id].full_name = "Dashboard User"
           /\ dashboard_users[id].email = auth_users[id].email
    /\ \E id \in DOMAIN dashboard_users : dashboard_users[id].role = "ceo"

-----------------------------------------------------------------------------
(* Properties of the AuthProvider *)

\* C22: when the backend sign-out fails, signOut leaves session, user and
\* userRole null and loading false, and throws the error to its caller.
C22_FailedSignOutClearsState ==
    [][(signOutCall = "pending" /\ signOutCall' /= "pending"
            /\ signOutCall' /= "returned") =>
           /\ signOutCall' = "threw"
           /\ session' = "null"
           /\ user' = "null"
           /\ userRole' = "null"
           /\ navigation' = <<>>
           /\ ~authLoading']_vars

\* a sign-out has failed and the state is cleared, the CEO's row untouched
C22_Witness ==
    /\ signOutCall = "threw"
    /\ isInitialized
    /\ user = "null" /\ session = "null" /\ userRole = "null"
    /\ ~authLoading
    /\ lookups = {}
    /\ \E id \in DOMAIN dashboard_users : dashboard_users[id].role = "ceo"

\* C27: once no role lookup is in flight, userRole is null exactly when user
\* is null.
C27_RoleIffUser ==
    lookups = {} => (userRole = "null" <=> user = "null")

\* every reply a lookup can have, a row without a role included
AllReplies ==
    { Reply(kind, role) :
          kind \in { "data", "error", "throws" }, role \in Roles \cup { "" } }

\* C30: fetchUserRole always returns a role, never an empty one: the stored
\* role when the lookup succeeds with one, 'staff' when the lookup fails,
\* throws or yields none; and a step that answers a lookup sets userRole to
\* the user's stored role or to 'staff', so no failure grants 'ceo'.
C30_LookupFailureGivesStaff ==
    [][(\E lookup \in lookups : lookup \notin lookups') =>
           /\ \A reply \in AllReplies :
                  /\ fetchUserRole(reply) \in Roles
                  /\ (reply.kind = "data" /\ reply.role /= "") =>
                         fetchUserRole(reply) = reply.role
                  /\ (reply.kind /= "data" \/ reply.role = "") =>
                         fetchUserRole(reply) = "staff"
           /\ \E lookup \in lookups \ lookups' :
                  /\ userRole' \in Roles
                  /\ userRole' /= "staff" =>
                         /\ lookup.userId \in DOMAIN dashboard_users
                         /\ userRole' = dashboard_users[lookup.userId].role]_vars

\* the CEO is signed in, and the lookup that failed has left the role 'staff'
C30_Witness ==
    /\ user /= "null"
    /\ lookups = {}
    /\ user \in DOMAIN dashboard_users
    /\ dashboard_users[user].role = "ceo"
    /\ dashboard_users[user].full_name = "DQ (CEO)"
    /\ userRole = "staff"

-----------------------------------------------------------------------------
(* refreshSession (src/src/types/index.ts, lines 463-495): the module's    *)
(* refreshPromise, the requests of supabase.auth.refreshSession and the     *)
(* calls that await them.  A request is named by its place in requests; a   *)
(* call is [request, owner, status], owner the call that started the       *)
(* request and runs the finally.                                            *)

MaxRefreshCalls == 5  \* most calls of refreshSession in a behaviour

\* the forecast, where a specification leaves it out
NoForecast ==
    /\ tz \in { z \in Zones : z.name = "UTC" }
    /\ salesData = <<>>
    /\ horizon = 0
    /\ result = NoCall
    /\ memo = NoMemo

PendingRequests(all) == { id \in 1 .. Len(all) : all[id] = "pending" }

RefreshCall(id, owner) == [request |-> id, owner |-> owner, status |-> "pending"]

refreshSession_NoReuse(promise, all) ==
    [refreshPromise |-> <<Len(all) + 1>>,
     requests |-> Append(all, "pending"),
     call |-> RefreshCall(Len(all) + 1, TRUE)]

\* refreshSession up to its await: the pending request when there is one,
\* else a new request kept in refreshPromise
refreshSession(promise, all) ==
    IF promise /= <<>>
    THEN [refreshPromise |-> promise, requests |-> all,
          call |-> RefreshCall(promise[1], FALSE)]
    ELSE [refreshPromise |-> <<Len(all) + 1>>,
          requests |-> Append(all, "pending"),
          call |-> RefreshCall(Len(all) + 1, TRUE)]

InitRefresh ==
    /\ refreshPromise = <<>>
    /\ requests = <<>>
    /\ refreshCalls = <<>>
    /\ NoForecast
    /\ PageUnmounted
    /\ NoAccounts
    /\ role_check = TRUE
    /\ NoScript
    /\ NoEffect

\* a call of refreshSession, by the 50-minute interval or by any importer
RefreshSessionCalled ==
    /\ Len(refreshCalls) < MaxRefreshCalls
    /\ LET called == refreshSession(refreshPromise, requests)
       IN  /\ refreshPromise' = called.refreshPromise
           /\ requests' = called.requests
           /\ refreshCalls' = Append(refreshCalls, called.call)
    /\ UNCHANGED <<forecastVars, pageVars, roleVars, role_check, scriptVars,
                   effectVars>>

\* a request settles: every call awaiting it returns its result or throws
\* its error, and the finally of the call that started it runs
RequestSettled ==
    \E id \in PendingRequests(requests), outcome \in { "fulfilled", "rejected" } :
        /\ requests' = [requests EXCEPT ![id] = outcome]
        /\ refreshCalls' =
               [i \in 1 .. Len(refreshCalls) |->
                   IF refreshCalls[i].request = id
                   THEN [refreshCalls[i] EXCEPT
                            !.status = IF outcome = "fulfilled"
                                       THEN "returned" ELSE "threw"]
                   ELSE refreshCalls[i]]
        /\ refreshPromise' = <<>>
        /\ UNCHANGED <<forecastVars, pageVars, roleVars, role_check,
                       scriptVars, effectVars>>

NextRefresh ==
    \/ RefreshSessionCalled
    \/ RequestSettled

SpecRefresh == InitRefresh /\ [][NextRefresh]_vars

\* C21: at most one request of supabase.auth.refreshSession is pending at
\* any time; a call made while one is pending awaits that request and starts
\* none; when the request settles, fulfilled or rejected, refreshPromise is
\* null, no call is left awaiting it, and the next call starts a new request.
C21_OneRefreshInFlight ==
    [][/\ Cardinality(PendingRequests(requests')) <= 1
       /\ refreshPromise' =
              IF PendingRequests(requests') = {} THEN <<>>
              ELSE <<CHOOSE id \in PendingRequests(requests') : TRUE>>
       /\ \A i \in 1 .. Len(refreshCalls') :
              refreshCalls'[i].status = "pending"
                  <=> refreshCalls'[i].request \in PendingRequests(requests')
       /\ Len(refreshCalls') > Len(refreshCalls) =>
              LET call == refreshCalls'[Len(refreshCalls')]
              IN  IF PendingRequests(requests) /= {}
                  THEN /\ requests' = requests
                       /\ call.request \in PendingRequests(requests)
                  ELSE /\ Len(requests') = Len(requests) + 1
                       /\ call.request = Len(requests')
                       /\ requests'[call.request] = "pending"]_vars

\* a request has failed, and the request started after it is awaited by two
\* calls
C21_Witness ==
    /\ Len(requests) = 2
    /\ requests[1] = "rejected" /\ requests[2] = "pending"
    /\ refreshPromise = <<2>>
    /\ Cardinality({ i \in 1 .. Len(refreshCalls) :
                       refreshCalls[i].request = 2
                           /\ refreshCalls[i].status = "pending" }) = 2
    /\ \E i \in 1 .. Len(refreshCalls) : refreshCalls[i].status = "threw"

-----------------------------------------------------------------------------
(* The role migration (src/unnamed/part_000) on the tables the first        *)
(* migration allows: role text NOT NULL DEFAULT 'admin', unconstrained.      *)

PriorRoles == { "admin", "ceo", "manager", "staff", "owner", "" }

RoleAfterMigration_AdminIsStaff(role) ==
    IF role \in Roles THEN role ELSE "staff"

\* SET role = CASE WHEN role = 'admin' THEN 'ceo' WHEN role NOT IN (...) THEN
\* 'staff' ELSE role END WHERE role NOT IN ('ceo', 'manager', 'staff')
RoleAfterMigration(role) ==
    IF role \notin Roles
    THEN IF role = "admin" THEN "ceo"
         ELSE IF role \notin Roles THEN "staff"
         ELSE role
    ELSE role

RolesCleaned(table) ==
    [id \in DOMAIN table |->
        [table[id] EXCEPT !.role = RoleAfterMigration(table[id].role)]]

\* the loop over the auth users without a row: INSERT ... 'staff' ON CONFLICT
\* (id) DO NOTHING; a violated constraint raises
RECURSIVE Backfill(_, _, _)
Backfill(table, users, ids) ==
    IF ids = {} THEN Done(table)
    ELSE LET id == CHOOSE u \in ids : TRUE
         IN  IF id \in DOMAIN table THEN Backfill(table, users, ids \ { id })
             ELSE IF ~EmailAllowed(table, id, users[id].email) THEN Failed
             ELSE Backfill(
                      WithRow(table, id,
                              [email |-> users[id].email,
                               full_name |-> Coalesce(users[id].full_name,
                                                      "Dashboard User"),
                               role |-> "staff"]),
                      users, ids \ { id })

\* the auth users before the migration, and the rows some of them have
PriorUsers ==
    [u1 |-> [email |-> "dq@gmail.com", full_name |-> "NULL"],
     u2 |-> [email |-> "sam@shop.example", full_name |-> "Sam Lee"],
     u3 |-> [email |-> "NULL", full_name |-> "NULL"]]

PriorRow(id, role) ==
    [email |-> PriorUsers[id].email,
     full_name |-> Coalesce(PriorUsers[id].full_name, "Dashboard User"),
     role |-> role]

InitMigration ==
    /\ role_check = FALSE
    /\ \E ids \in SUBSET UserIds :
           /\ auth_users = [id \in ids |-> PriorUsers[id]]
           /\ \E rows \in SUBSET (ids \ { "u3" }) :
                  dashboard_users \in
                      { [id \in rows |-> PriorRow(id, role[id])] :
                            role \in [rows -> PriorRoles] }
    /\ userRole = "null"
    /\ navigation = <<>>
    /\ user = "null"
    /\ session = "null"
    /\ authLoading = TRUE
    /\ isInitialized = FALSE
    /\ lookups = {}
    /\ signOutCall = "none"
    /\ NoForecast
    /\ PageUnmounted
    /\ NoRefresh
    /\ NoScript
    /\ NoEffect

\* the migration, in one transaction: the roles cleaned, the CHECK added
\* (the cleaned rows pass it), the trigger installed, the users without a
\* row given one
RunRoleMigration ==
    /\ ~role_check
    /\ LET done == Backfill(RolesCleaned(dashboard_users), auth_users,
                            DOMAIN auth_users)
       IN  IF done.error
           THEN UNCHANGED <<dashboard_users, role_check>>
           ELSE /\ dashboard_users' = done.table
                /\ role_check' = TRUE
    /\ UNCHANGED <<auth_users, userRole, navigation, authVars>>
    /\ UNCHANGED <<forecastVars, pageVars, refreshVars, scriptVars, effectVars>>

NextMigration == RunRoleMigration

SpecMigration == InitMigration /\ [][NextMigration]_vars

\* C23: the migration leaves every row of dashboard_users with a role in
\* {ceo, manager, staff}: 'admin' has become 'ceo', any other role outside
\* the three has become 'staff', and a role among the three is kept.
C23_MigrationCleansRoles ==
    [][(~role_check /\ role_check') =>
           /\ \A id \in DOMAIN dashboard_users' :
                  dashboard_users'[id].role \in { "ceo", "manager", "staff" }
           /\ \A id \in DOMAIN dashboard_users :
                  /\ id \in DOMAIN dashboard_users'
                  /\ dashboard_users'[id].role =
                         IF dashboard_users[id].role = "admin" THEN "ceo"
                         ELSE IF dashboard_users[id].role
                                     \in { "ceo", "manager", "staff" }
                         THEN dashboard_users[id].role
                         ELSE "staff"]_vars

\* the migration has run on two rows: one is now 'ceo', the other 'manager'
C23_Witness ==
    /\ role_check
    /\ DOMAIN dashboard_users = { "u1", "u2" }
    /\ dashboard_users["u1"].role = "ceo"
    /\ dashboard_users["u2"].role = "manager"

-----------------------------------------------------------------------------
(* The test-order script (src/scripts/generate-test-orders.js): the runs of *)
(* generateTestOrder, each at one of its awaits, and the two tables it      *)
(* reads and writes.  A run is [pc, snapshot, customer, failed]: pc the      *)
(* request it awaits, snapshot the customers it read, customer the one it   *)
(* picked.                                                                   *)

MaxRuns == 3         \* most runs of generateTestOrder in a behaviour

\* total_orders of two of the sample customers
SampleCustomers == [john |-> 5, jane |-> 3]

Run(pc, snapshot, customer, failed) ==
    [pc |-> pc, snapshot |-> snapshot, customer |-> customer,
     failed |-> failed]

\* the run has thrown, or logged the failure of its last request, and ended
RunFailed(run) == [run EXCEPT !.pc = "done", !.failed = TRUE]

Awaiting(pc) == { i \in 1 .. Len(runs) : runs[i].pc = pc }

InitScript ==
    /\ customers = SampleCustomers
    /\ script_orders = [c \in DOMAIN SampleCustomers |-> 0]
    /\ runs = <<>>
    /\ NoForecast
    /\ PageUnmounted
    /\ NoAccounts
    /\ role_check = TRUE
    /\ NoRefresh
    /\ NoEffect

\* generateTestOrder() is called, at start or by the 10-second interval,
\* and sends its select of customers
RunStarted ==
    /\ Len(runs) < MaxRuns
    /\ runs' = Append(runs, Run("customers", <<>>, "none", FALSE))
    /\ UNCHANGED <<customers, script_orders>>
    /\ UNCHANGED <<forecastVars, pageVars, roleVars, role_check, refreshVars,
                   effectVars>>

\* the select of customers answers
CustomersAnswered ==
    \E i \in Awaiting("customers"), ok \in BOOLEAN :
        /\ runs' = [runs EXCEPT ![i] =
                       IF ok THEN Run("products", customers, "none", FALSE)
                       ELSE RunFailed(runs[i])]
        /\ UNCHANGED <<customers, script_orders>>
        /\ UNCHANGED <<forecastVars, pageVars, roleVars, role_check,
                       refreshVars, effectVars>>

\* the select of products answers; the run picks its customer from the rows
\* it read and sends the insert of the order
ProductsAnswered ==
    \E i \in Awaiting("products"), ok \in BOOLEAN :
        \E randomCustomer \in DOMAIN runs[i].snapshot :
            /\ runs' = [runs EXCEPT ![i] =
                           IF ok
                           THEN [runs[i] EXCEPT !.pc = "order",
                                                !.customer = randomCustomer]
                           ELSE RunFailed(runs[i])]
            /\ UNCHANGED <<customers, script_orders>>
            /\ UNCHANGED <<forecastVars, pageVars, roleVars, role_check,
                           refreshVars, effectVars>>

\* the insert of the order answers
OrderAnswered ==
    \E i \in Awaiting("order"), ok \in BOOLEAN :
        /\ runs' = [runs EXCEPT ![i] =
                       IF ok THEN [runs[i] EXCEPT !.pc = "items"]
                       ELSE RunFailed(runs[i])]
        /\ script_orders' =
               IF ok
               THEN [script_orders EXCEPT ![runs[i].customer] = @ + 1]
               ELSE script_orders
        /\ UNCHANGED customers
        /\ UNCHANGED <<forecastVars, pageVars, roleVars, role_check,
                       refreshVars, effectVars>>

\* the insert of the order items answers; the run sends the update of its
\* customer
ItemsAnswered ==
    \E i \in Awaiting("items"), ok \in BOOLEAN :
        /\ runs' = [runs EXCEPT ![i] =
                       IF ok THEN [runs[i] EXCEPT !.pc = "customer"]
                       ELSE RunFailed(runs[i])]
        /\ UNCHANGED <<customers, script_orders>>
        /\ UNCHANGED <<forecastVars, pageVars, roleVars, role_check,
                       refreshVars, effectVars>>

\* total_orders: randomCustomer.total_orders + 1
totalOrdersWritten(run) == run.snapshot[run.customer] + 1

\* the update of the customer answers
CustomerAnswered ==
    \E i \in Awaiting("customer"), ok \in BOOLEAN :
        /\ runs' = [runs EXCEPT ![i] =
                       IF ok THEN [runs[i] EXCEPT !.pc = "done"]
                       ELSE RunFailed(runs[i])]
        /\ customers' =
               IF ok
               THEN [customers EXCEPT
                        ![runs[i].customer] = totalOrdersWritten(runs[i])]
               ELSE customers
        /\ UNCHANGED script_orders
        /\ UNCHANGED <<forecastVars, pageVars, roleVars, role_check,
                       refreshVars, effectVars>>

NextScript ==
    \/ RunStarted
    \/ CustomersAnswered
    \/ ProductsAnswered
    \/ OrderAnswered
    \/ ItemsAnswered
    \/ CustomerAnswered

SpecScript == InitScript /\ [][NextScript]_vars

\* C24: when every run has ended, none of them with a failed request, each
\* customer's total_orders is its initial value plus the number of orders
\* the script inserted for that customer.
C24_TotalOrdersMatchOrders ==
    (\A i \in 1 .. Len(runs) : runs[i].pc = "done" /\ ~runs[i].failed) =>
        \A c \in DOMAIN customers :
            customers[c] = SampleCustomers[c] + script_orders[c]

-----------------------------------------------------------------------------
(* The effect of the Sales page (src/src/pages/Sales.tsx, lines 63-136):    *)
(* the fetch and the refresh interval each run of the effect starts, with   *)
(* the values their closures hold, the loading flag and the metrics.  A     *)
(* request is [kind, stage, timeRange, dateRange, loading]: fetchSalesData  *)
(* or refreshWithoutLoading, awaiting the orders or the top products, with  *)
(* the selection and the loading flag of the render that ran the effect.    *)
(* topProducts is not kept.                                                  *)

MaxPending == 2      \* most requests of the effect awaiting an answer

Request(kind, stage, selection, closureLoading) ==
    [kind |-> kind, stage |-> stage, timeRange |-> selection.timeRange,
     dateRange |-> selection.dateRange, loading |-> closureLoading]

CanStart(request) ==
    request \in inflight \/ Cardinality(inflight) < MaxPending

cleanup_Nothing(active, timer) == active

\* return () => clearInterval(refreshInterval)
cleanup(active, timer) == active \ { timer }

\* the end dates chosen on this page: one leaves no order in range
EffectEnds == { <<2025, 5, 31>>, <<2025, 8, 31>> }

EffectZones == { z \in Zones : z.name = "Asia/Tokyo" }

\* before the page is mounted
EffectUnmounted ==
    /\ mounted = FALSE
    /\ timeRange = "daily"
    /\ dateRange = DefaultDateRange
    /\ forecastRange = "week"
    /\ salesData = <<>>
    /\ metrics = NoMetrics
    /\ loading = TRUE
    /\ shown = NoFetch
    /\ inflight = {}
    /\ timers = {}
    /\ horizon = forecastPeriods["week"]
    /\ result = Returned(<<>>)
    /\ combinedChartData = <<>>

InitEffect ==
    /\ tz \in EffectZones
    /\ orders = Backend
    /\ memo = NoMemo
    /\ EffectUnmounted
    /\ NoAccounts
    /\ role_check = TRUE
    /\ NoRefresh
    /\ NoScript

\* a run of the effect for a selection, after the cleanup of the run before
\* it: fetchSalesData up to its first await, and setInterval
runEffect(selection, previous) ==
    /\ inflight' = inflight \cup { Request("fetch", "orders", selection, loading) }
    /\ loading' = IF Len(salesData) = 0 THEN TRUE ELSE loading
    /\ timers' = cleanup(timers, previous) \cup { selection }

\* the page is mounted: the first render and the first run of the effect
Mount ==
    /\ ~mounted
    /\ mounted' = TRUE
    /\ runEffect(Fetch(timeRange, dateRange), Fetch(timeRange, dateRange))
    /\ UNCHANGED <<timeRange, dateRange, forecastRange, salesData, metrics,
                   shown>>
    /\ Render
    /\ UNCHANGED <<tz, memo, orders, roleVars, role_check, refreshVars,
                   scriptVars>>

\* setTimeRange from the select, which is rendered only when loading is
\* false; the effect runs again
ChangeTimeRange ==
    \E range \in TimeRanges \ { timeRange } :
        /\ mounted /\ ~loading
        /\ CanStart(Request("fetch", "orders", Fetch(range, dateRange), loading))
        /\ timeRange' = range
        /\ runEffect(Fetch(range, dateRange), Fetch(timeRange, dateRange))
        /\ UNCHANGED <<mounted, dateRange, forecastRange, salesData, metrics,
                       shown>>
        /\ Render
        /\ UNCHANGED <<tz, memo, orders, roleVars, role_check, refreshVars,
                       scriptVars>>

\* setDateRange from the end-date input, rendered only when loading is false
ChangeDateRange ==
    \E end \in EffectEnds \ { dateRange.end } :
        LET dates == [dateRange EXCEPT !.end = end]
        IN  /\ mounted /\ ~loading
            /\ CanStart(Request("fetch", "orders", Fetch(timeRange, dates),
                                loading))
            /\ dateRange' = dates
            /\ runEffect(Fetch(timeRange, dates), Fetch(timeRange, dateRange))
            /\ UNCHANGED <<mounted, timeRange, forecastRange, salesData,
                           metrics, shown>>
            /\ Render
            /\ UNCHANGED <<tz, memo, orders, roleVars, role_check,
                           refreshVars, scriptVars>>

\* an interval fires: refreshWithoutLoading up to its first await
IntervalFires ==
    \E timer \in timers :
        /\ CanStart(Request("refresh", "orders", timer, FALSE))
        /\ inflight' = inflight \cup { Request("refresh", "orders", timer, FALSE) }
        /\ UNCHANGED <<mounted, timeRange, dateRange, forecastRange,
                       salesData, metrics, shown, loading, timers>>
        /\ Render
        /\ UNCHANGED <<tz, memo, orders, roleVars, role_check, refreshVars,
                       scriptVars>>

\* catch and finally of fetchSalesData: if (loading) setLoading(false), with
\* the loading of its closure; refreshWithoutLoading only logs
loadingAfter(request) ==
    IF request.kind = "fetch" /\ request.loading THEN FALSE ELSE loading

\* trackUserActivity and getSalesData answer: the orders are filtered and
\* grouped, setSalesData and setMetrics are called, and getTopProducts is
\* awaited; or one of the two throws
OrdersAnsweredTo(request) ==
    \E ok \in BOOLEAN :
        /\ request \in inflight /\ request.stage = "orders"
        /\ IF ok
           THEN LET filtered == filteredOrders(orders, request.dateRange)
                IN  /\ salesData' = processChartData(filtered, request.timeRange)
                    /\ metrics' = metricsOf(filtered)
                    /\ shown' = Fetch(request.timeRange, request.dateRange)
                    /\ inflight' = (inflight \ { request })
                           \cup { [request EXCEPT !.stage = "products"] }
                    /\ UNCHANGED loading
           ELSE /\ inflight' = inflight \ { request }
                /\ loading' = loadingAfter(request)
                /\ UNCHANGED <<salesData, metrics, shown>>
        /\ UNCHANGED <<mounted, timeRange, dateRange, forecastRange, timers>>
        /\ Render
        /\ UNCHANGED <<tz, memo, orders, roleVars, role_check, refreshVars,
                       scriptVars>>

\* getTopProducts answers or throws: the function ends, through its finally
TopProductsAnsweredTo(request) ==
        /\ request \in inflight /\ request.stage = "products"
        /\ inflight' = inflight \ { request }
        /\ loading' = loadingAfter(request)
        /\ UNCHANGED <<mounted, timeRange, dateRange, forecastRange,
                       salesData, metrics, shown, timers>>
        /\ Render
        /\ UNCHANGED <<tz, memo, orders, roleVars, role_check, refreshVars,
                       scriptVars>>

\* the page is unmounted: the cleanup of the last run of the effect; the
\* state is discarded and later answers set nothing
Unmount ==
    /\ mounted
    /\ mounted' = FALSE
    /\ timers' = cleanup(timers, Fetch(timeRange, dateRange))
    /\ inflight' = {}
    /\ timeRange' = "daily"
    /\ dateRange' = DefaultDateRange
    /\ salesData' = <<>>
    /\ metrics' = NoMetrics
    /\ loading' = TRUE
    /\ shown' = NoFetch
    /\ UNCHANGED forecastRange
    /\ Render
    /\ UNCHANGED <<tz, memo, orders, roleVars, role_check, refreshVars,
                   scriptVars>>

OrdersAnswered == \E request \in inflight : OrdersAnsweredTo(request)

TopProductsAnswered ==
    \E request \in inflight : TopProductsAnsweredTo(request)

AnsweredTo(request) ==
    OrdersAnsweredTo(request) \/ TopProductsAnsweredTo(request)

\* every request the effect can start
Requests ==
    { Request(kind, stage, Fetch(range, [start |-> DefaultDateRange.start,
                                         end |-> end]), closureLoading) :
          kind \in { "fetch", "refresh" }, stage \in { "orders", "products" },
          range \in TimeRanges, end \in EffectEnds,
          closureLoading \in BOOLEAN }

NextEffect ==
    \/ Mount
    \/ ChangeTimeRange
    \/ ChangeDateRange
    \/ IntervalFires
    \/ OrdersAnswered
    \/ TopProductsAnswered
    \/ Unmount

SpecEffect == InitEffect /\ [][NextEffect]_vars

\* every request is answered in the end, and an active interval keeps firing
SpecEffectLive ==
    /\ SpecEffect
    /\ \A request \in Requests : WF_vars(AnsweredTo(request))
    /\ WF_vars(IntervalFires)

-----------------------------------------------------------------------------
(* Properties of the effect *)

\* C25: while the page is mounted, loading is always eventually false.
C25_LoadingEventuallyCleared ==
    (mounted /\ loading) ~> (~mounted \/ ~loading)

\* C26: when salesData holds the answer to a request for the current
\* selection, no step that keeps the selection replaces it by the answer to
\* a request for another one.
C26_NoStaleOverwrite ==
    [][(mounted /\ mounted'
            /\ timeRange' = timeRange /\ dateRange' = dateRange
            /\ shown = Fetch(timeRange, dateRange)) =>
           /\ shown' = Fetch(timeRange, dateRange)
           /\ salesData' = processChartData(
                  filteredOrders(orders, dateRange), timeRange)
           /\ metrics' = metricsOf(filteredOrders(orders, dateRange))]_vars

\* C29: a mounted page has exactly one refresh interval, that of the last
\* run of the effect, and an unmounted page has none.
C29_OneRefreshTimer ==
    /\ Cardinality(timers) <= 1
    /\ mounted => timers = { Fetch(timeRange, dateRange) }
    /\ ~mounted => timers = {}

\* the selection has been changed twice, with both fetches still in flight,
\* and the one interval is that of the last selection
C29_Witness ==
    /\ mounted
    /\ timeRange = "monthly" /\ dateRange.end = <<2025, 5, 31>>
    /\ Cardinality({ r \in inflight : r.kind = "fetch" }) = 2
    /\ timers = { Fetch("monthly", dateRange) }

====
